---- MODULE Spec2Model ----
(***************************************************************************)
(* A model of serde_dynamo: the AttributeValue value model, the            *)
(* serializer (typed value -> AttributeValue), the deserializer            *)
(* (AttributeValue -> typed value) and their error paths.                  *)
(*                                                                         *)
(* Conventions.                                                            *)
(*   - Text is a sequence of one-character strings, so that formatting,    *)
(*     parsing and path rendering are computed character by character.     *)
(*   - A tagged union is a tuple whose first element is the tag:           *)
(*     <<"N", text>>, <<"Ok", v>>, <<"Err", e>>, <<"Panic", what>>.        *)
(*   - An integer is a sign and a sequence of decimal digits, so that the  *)
(*     64 and 128 bit widths keep their real bounds.                       *)
(***************************************************************************)
EXTENDS Integers, Sequences, FiniteSets, TLC

VARIABLES
    pc,        \* position of the call under study
    subject,   \* its input
    result,    \* what it has returned so far
    item,      \* SerializerMap.item
    next_key,  \* SerializerMap.next_key: <<>> is None, <<k>> is Some(k)
    ret,       \* the last call made on the SerializerMap and what it returned
    ncalls,    \* number of calls made on the SerializerMap
    drain      \* the order in which HashMap::drain yields the entries of a map

vars == <<pc, subject, result, item, next_key, ret, ncalls, drain>>

(***************************************************************************)
(* Bounds                                                                  *)
(***************************************************************************)
MaxCalls == 4

(***************************************************************************)
(* Results                                                                 *)
(***************************************************************************)
Ok(v) == <<"Ok", v>>
Err(e) == <<"Err", e>>
Panic(what) == <<"Panic", what>>
IsOk(r) == r[1] = "Ok"
IsErr(r) == r[1] = "Err"
IsPanic(r) == r[1] = "Panic"

\* Result::and_then, which is also what the ? operator does: the closure is
\* applied to the value of an Ok, anything else is returned as it is
and_then(r, op(_)) == IF IsOk(r) THEN op(r[2]) ELSE r

\* Result::or_else: an Ok is returned as it is, the closure answers for anything else
or_else(r, op(_)) == IF IsOk(r) THEN r ELSE op(r)

\* Option<T>
None == <<>>
Some(x) == <<x>>

(***************************************************************************)
(* error.rs: Error(Box<(ErrorImpl, String, Option<AttributeValue>)>)       *)
(***************************************************************************)
Error_new(kind, detail, path, input) ==
    [kind |-> kind, detail |-> detail, path |-> path, input |-> input]

\* impl Into<Error> for ErrorImpl: no path, no input
Error_into(kind, detail) == Error_new(kind, detail, <<>>, None)

(***************************************************************************)
(* AttributeValue                                                          *)
(***************************************************************************)
AvN(text) == <<"N", text>>
AvS(text) == <<"S", text>>
AvBool(b) == <<"Bool", b>>
AvB(bytes) == <<"B", bytes>>
AvNull(b) == <<"Null", b>>
AvM(m) == <<"M", m>>
AvL(l) == <<"L", l>>
AvSs(l) == <<"Ss", l>>
AvNs(l) == <<"Ns", l>>
AvBs(l) == <<"Bs", l>>

\* HashMap::new() and HashMap::insert
EmptyMap == <<>>
MapInsert(m, k, v) == [x \in (DOMAIN m) \cup {k} |-> IF x = k THEN v ELSE m[x]]

(***************************************************************************)
(* Integers: v.to_string() and str::parse::<T>()                           *)
(***************************************************************************)
Digits == <<"0", "1", "2", "3", "4", "5", "6", "7", "8", "9">>
IsDigit(c) == \E d \in 1..10 : Digits[d] = c
DigitOf(c) == (CHOOSE d \in 1..10 : Digits[d] = c) - 1

IntVal(neg, mag) == [neg |-> neg, mag |-> mag]

IntWidths == {"i8", "u8", "i16", "u16", "i32", "u32", "i64", "u64", "i128", "u128"}
IsSigned(w) == w \in {"i8", "i16", "i32", "i64", "i128"}

\* T::MAX
MaxMag(w) ==
    CASE w = "i8"   -> <<1,2,7>>
      [] w = "u8"   -> <<2,5,5>>
      [] w = "i16"  -> <<3,2,7,6,7>>
      [] w = "u16"  -> <<6,5,5,3,5>>
      [] w = "i32"  -> <<2,1,4,7,4,8,3,6,4,7>>
      [] w = "u32"  -> <<4,2,9,4,9,6,7,2,9,5>>
      [] w = "i64"  -> <<9,2,2,3,3,7,2,0,3,6,8,5,4,7,7,5,8,0,7>>
      [] w = "u64"  -> <<1,8,4,4,6,7,4,4,0,7,3,7,0,9,5,5,1,6,1,5>>
      [] w = "i128" -> <<1,7,0,1,4,1,1,8,3,4,6,0,4,6,9,2,3,1,7,3,
                         1,6,8,7,3,0,3,7,1,5,8,8,4,1,0,5,7,2,7>>
      [] w = "u128" -> <<3,4,0,2,8,2,3,6,6,9,2,0,9,3,8,4,6,3,4,6,
                         3,3,7,4,6,0,7,4,3,1,7,6,8,2,1,1,4,5,5>>

\* the magnitude of T::MIN
MinMag(w) ==
    CASE w = "i8"   -> <<1,2,8>>
      [] w = "i16"  -> <<3,2,7,6,8>>
      [] w = "i32"  -> <<2,1,4,7,4,8,3,6,4,8>>
      [] w = "i64"  -> <<9,2,2,3,3,7,2,0,3,6,8,5,4,7,7,5,8,0,8>>
      [] w = "i128" -> <<1,7,0,1,4,1,1,8,3,4,6,0,4,6,9,2,3,1,7,3,
                         1,6,8,7,3,0,3,7,1,5,8,8,4,1,0,5,7,2,8>>
      [] OTHER      -> <<0>>

\* a <= b on magnitudes without leading zeros
MagLeq(a, b) ==
    \/ Len(a) < Len(b)
    \/ /\ Len(a) = Len(b)
       /\ \/ a = b
          \/ \E i \in 1..Len(a) :
                /\ a[i] < b[i]
                /\ \A j \in 1..(i-1) : a[j] = b[j]

InRange(w, n) ==
    IF n.neg THEN IsSigned(w) /\ MagLeq(n.mag, MinMag(w))
    ELSE MagLeq(n.mag, MaxMag(w))

\* mutant: the sign is not written
to_string_unsigned(n) == [i \in 1..Len(n.mag) |-> Digits[n.mag[i] + 1]]

\* Display for the integer types
to_string(n) ==
    (IF n.neg THEN <<"-">> ELSE <<>>) \o [i \in 1..Len(n.mag) |-> Digits[n.mag[i] + 1]]

RECURSIVE StripZeros(_)
StripZeros(mag) ==
    IF Len(mag) > 1 /\ mag[1] = 0 THEN StripZeros(Tail(mag)) ELSE mag

\* FromStr for the integer types: Ok(n) or Err(IntErrorKind)
parse_int(w, s) ==
    IF s = <<>> THEN Err("Empty")
    ELSE IF Len(s) = 1 /\ s[1] \in {"+", "-"} THEN Err("InvalidDigit")
    ELSE
        LET neg    == s[1] = "-" /\ IsSigned(w)
            digits == IF s[1] = "+" \/ neg THEN Tail(s) ELSE s
        IN  IF \E i \in 1..Len(digits) : ~IsDigit(digits[i]) THEN Err("InvalidDigit")
            ELSE
                LET mag == StripZeros([i \in 1..Len(digits) |-> DigitOf(digits[i])])
                IN  IF neg
                    THEN IF MagLeq(mag, MinMag(w))
                         THEN Ok(IntVal(mag # <<0>>, mag))
                         ELSE Err("NegOverflow")
                    ELSE IF MagLeq(mag, MaxMag(w))
                         THEN Ok(IntVal(FALSE, mag))
                         ELSE Err("PosOverflow")

(***************************************************************************)
(* Types and typed values, as a Serialize / Deserialize implementation     *)
(* presents them to the serde data model.                                  *)
(*   type                                   value                          *)
(*   <<"int", w>>                           IntVal                         *)
(*   <<"bool">>                             BOOLEAN                        *)
(*   <<"string">>                           Text                           *)
(*   <<"char">>                             a one-character string         *)
(*   <<"unit">>, <<"unit_struct", name>>    <<>>                           *)
(*   <<"bytes">>                            sequence of bytes              *)
(*   <<"option", T>>                        None or Some(v)                *)
(*   <<"seq", T>>                           sequence                       *)
(*   <<"tuple", Ts>>                        sequence                       *)
(*   <<"tuple_struct", name, Ts>>           sequence                       *)
(*   <<"map", K, V>>                        function from keys to values   *)
(*   <<"struct", name, fields>>             sequence of the field values   *)
(*        fields: sequence of <<name, T, flatten>>                         *)
(*   <<"newtype_struct", name, T>>          the wrapped value              *)
(*        name: <<text, address>>                                          *)
(*   <<"enum", repr, variants>>             <<variant name, payload>>      *)
(*        variants: sequence of <<name, kind, payload type>>, kind one of  *)
(*        "unit", "newtype", "tuple", "struct"                             *)
(*        repr: <<"external">>, <<"internal", tag>>,                       *)
(*              <<"adjacent", tag, content>>, <<"untagged">>               *)
(***************************************************************************)
TInt(w) == <<"int", w>>
TBool == <<"bool">>
TString == <<"string">>
TChar == <<"char">>
TUnit == <<"unit">>
TBytes == <<"bytes">>
TOption(T) == <<"option", T>>
TSeq(T) == <<"seq", T>>
TTuple(Ts) == <<"tuple", Ts>>
TTupleStruct(name, Ts) == <<"tuple_struct", name, Ts>>
TMap(K, V) == <<"map", K, V>>
TStruct(name, fields) == <<"struct", name, fields>>
TUnitStruct(name) == <<"unit_struct", name>>
TNewtypeStruct(name, T) == <<"newtype_struct", name, T>>
TEnum(repr, variants) == <<"enum", repr, variants>>

Field(name, T) == <<name, T, FALSE>>
Flatten(name, T) == <<name, T, TRUE>>

Kind(T) == T[1]

\* the declaration of the variant called name, or <<>>
VariantNamed(T, name) ==
    LET vs == T[3]
        hits == {i \in 1..Len(vs) : vs[i][1] = name}
    IN  IF hits = {} THEN <<>> ELSE vs[CHOOSE i \in hits : TRUE]

\* the entries of a map value in the order its iterator yields them
RECURSIVE SetToSeq(_)
SetToSeq(S) ==
    IF S = {} THEN <<>>
    ELSE LET x == CHOOSE y \in S : TRUE IN <<x>> \o SetToSeq(S \ {x})

(***************************************************************************)
(* set.rs: the sentinel name of the set newtype                            *)
(***************************************************************************)
NEWTYPE_SYMBOL ==
    << <<";", "I", "N", "T", "E", "R", "N", "A", "L", "_", "N", "E", "W", "T", "Y", "P", "E",
         "_", "F", "O", "R", "_", "S", "E", "T", ";">>, "set::NEWTYPE_SYMBOL" >>

\* a comparison of the two names by their text
str_eq(a, b) == a[1] = b[1]

\* std::ptr::eq on two &'static str: same address and same length
ptr_eq(a, b) == a[2] = b[2] /\ Len(a[1]) = Len(b[1])

(***************************************************************************)
(* ser/serializer_map.rs: MapKeySerializer                                 *)
(***************************************************************************)
KeyMustBeAString == Err(Error_into("KeyMustBeAString", ""))
Unreachable == Panic("unreachable")

\* what serde's derive calls on the serializer for an enum value, by representation
EnumCall(T, v) ==
    LET decl == VariantNamed(T, v[1])
        repr == T[2][1]
        kind == decl[2]
    IN  CASE repr = "external" ->
                (CASE kind = "unit" -> "unit_variant"
                   [] kind = "newtype" -> "newtype_variant"
                   [] kind = "tuple" -> "tuple_variant"
                   [] kind = "struct" -> "struct_variant")
          [] repr = "internal" /\ kind \in {"unit", "struct"} -> "struct"
          [] repr = "adjacent" -> "struct"
          [] repr = "untagged" ->
                (CASE kind = "unit" -> "unit"
                   [] kind = "newtype" -> "inner"
                   [] kind = "tuple" -> "tuple"
                   [] kind = "struct" -> "struct")

\* a struct with a flattened field is serialized through serialize_map
HasFlatten(T) == \E i \in 1..Len(T[3]) : T[3][i][3]

RECURSIVE MapKeySerializer_serialize(_, _)
MapKeySerializer_serialize(T, v) ==
    LET k == Kind(T) IN
    CASE k = "int" -> Ok(to_string(v))
      [] k = "float" -> KeyMustBeAString
      [] k = "string" -> Ok(v)
      [] k = "char" -> Ok(<<v>>)
      [] k = "bool" -> KeyMustBeAString
      [] k = "option" -> KeyMustBeAString
      [] k = "unit" -> KeyMustBeAString
      [] k = "unit_struct" -> KeyMustBeAString
      [] k = "bytes" -> Unreachable
      [] k = "seq" -> Unreachable
      [] k = "map" -> Unreachable
      [] k = "tuple" -> KeyMustBeAString
      [] k = "tuple_struct" -> KeyMustBeAString
      [] k = "struct" -> IF HasFlatten(T) THEN Unreachable ELSE KeyMustBeAString
      [] k = "newtype_struct" -> MapKeySerializer_serialize(T[3], v)
      [] k = "enum" ->
            LET call == EnumCall(T, v) IN
            CASE call = "unit_variant" -> Ok(v[1])
              [] call \in {"newtype_variant", "tuple_variant", "struct_variant"} ->
                    KeyMustBeAString
              [] call = "struct" -> KeyMustBeAString
              [] call = "unit" -> KeyMustBeAString
              [] call = "tuple" -> KeyMustBeAString
              [] call = "inner" -> MapKeySerializer_serialize(VariantNamed(T, v[1])[3], v[2])

(***************************************************************************)
(* ser/serializer.rs, serializer_seq.rs, serializer_map.rs,                *)
(* serializer_struct.rs, serializer_struct_variant.rs,                     *)
(* serializer_tuple_variant.rs                                             *)
(***************************************************************************)
RECURSIVE Serializer_serialize(_, _)
RECURSIVE Value_serialize(_)

SerializerMap_new == [item |-> EmptyMap, next_key |-> None]

Returned(res, sm) == [res |-> res, sm |-> sm]

\* mutant: the pending key is not checked, the new key replaces it
SerializerMap_serialize_key_overwrite(sm, key) ==
    LET k == MapKeySerializer_serialize(key[1], key[2])
    IN  IF IsOk(k)
        THEN Returned(Ok(<<>>), [sm EXCEPT !.next_key = Some(k[2])])
        ELSE Returned(k, sm)

SerializerMap_serialize_key(sm, key) ==
    IF sm.next_key # None
    THEN Returned(Err(Error_into("SerializeMapKeyCalledTwice", "")), sm)
    ELSE LET k == MapKeySerializer_serialize(key[1], key[2])
         IN  IF IsOk(k)
             THEN Returned(Ok(<<>>), [sm EXCEPT !.next_key = Some(k[2])])
             ELSE Returned(k, sm)

\* mutant: a missing key is taken to be the empty key (unwrap_or_default)
SerializerMap_serialize_value_default_key(sm, value) ==
    LET key == IF sm.next_key = None THEN <<>> ELSE sm.next_key[1]
        taken == [sm EXCEPT !.next_key = None]
        v == Serializer_serialize(value[1], value[2])
    IN  IF IsOk(v)
        THEN Returned(Ok(<<>>), [taken EXCEPT !.item = MapInsert(sm.item, key, v[2])])
        ELSE Returned(v, taken)

SerializerMap_serialize_value(sm, value) ==
    IF sm.next_key = None
    THEN Returned(Err(Error_into("SerializeMapValueBeforeKey", "")), sm)
    ELSE LET taken == [sm EXCEPT !.next_key = None]
             v == Serializer_serialize(value[1], value[2])
         IN  IF IsOk(v)
             THEN Returned(Ok(<<>>),
                           [taken EXCEPT !.item = MapInsert(sm.item, sm.next_key[1], v[2])])
             ELSE Returned(v, taken)

SerializerMap_serialize_entry(sm, key, value) ==
    LET k == MapKeySerializer_serialize(key[1], key[2])
    IN  IF ~IsOk(k) THEN Returned(k, sm)
        ELSE LET v == Serializer_serialize(value[1], value[2])
             IN  IF ~IsOk(v) THEN Returned(v, sm)
                 ELSE Returned(Ok(<<>>), [sm EXCEPT !.item = MapInsert(sm.item, k[2], v[2])])

SerializerMap_end(sm) == Ok(AvM(sm.item))

\* SerializerSeq / SerializerTupleVariant: serialize_element for each element, in order
RECURSIVE SerializerSeq_elements(_, _, _)
SerializerSeq_elements(Ts, vs, vec) ==
    IF vs = <<>> THEN Ok(vec)
    ELSE LET v == Serializer_serialize(Head(Ts), Head(vs))
         IN  IF IsOk(v) THEN SerializerSeq_elements(Tail(Ts), Tail(vs), Append(vec, v[2]))
             ELSE v

SerializerSeq_end(elements) ==
    IF IsOk(elements) THEN Ok(AvL(elements[2])) ELSE elements

\* SerializerStruct / SerializerStructVariant: serialize_field for each field, in order
RECURSIVE SerializerStruct_fields(_, _, _)
SerializerStruct_fields(fields, vs, it) ==
    IF vs = <<>> THEN Ok(it)
    ELSE LET v == Serializer_serialize(Head(fields)[2], Head(vs))
         IN  IF IsOk(v)
             THEN SerializerStruct_fields(Tail(fields), Tail(vs),
                                          MapInsert(it, Head(fields)[1], v[2]))
             ELSE v

\* mutant: the struct ends as the list of its field values
SerializerStruct_end_as_list(fields) ==
    IF IsOk(fields)
    THEN LET names == SetToSeq(DOMAIN fields[2])
         IN  Ok(AvL([i \in 1..Len(names) |-> fields[2][names[i]]]))
    ELSE fields

SerializerStruct_end(fields) ==
    IF IsOk(fields) THEN Ok(AvM(fields[2])) ELSE fields

\* mutant: the content is returned without the map that names the variant
WrapVariant_content_only(variant, content) == content

\* SerializerStructVariant::end, SerializerTupleVariant::end and
\* Serializer::serialize_newtype_variant: a one-entry map keyed by the variant
WrapVariant(variant, content) ==
    IF IsOk(content) THEN Ok(AvM(MapInsert(EmptyMap, variant, content[2]))) ELSE content

\* impl Serialize for a map: serialize_map, serialize_entry for each entry, end
RECURSIVE SerializerMap_entries(_, _, _, _)
SerializerMap_entries(T, m, keys, sm) ==
    IF keys = <<>> THEN SerializerMap_end(sm)
    ELSE LET r == SerializerMap_serialize_entry(sm, <<T[2], Head(keys)>>,
                                                <<T[3], m[Head(keys)]>>)
         IN  IF IsOk(r.res) THEN SerializerMap_entries(T, m, Tail(keys), r.sm)
             ELSE r.res

\* a struct that has a flattened field: serialize_map, then serialize_entry for each
\* plain field and, through serde's FlatMapSerializer, for each field of a flattened
\* struct; a flattened None adds nothing
RECURSIVE FlatMap_fields(_, _, _)
FlatMap_fields(fields, vs, sm) ==
    IF vs = <<>> THEN Returned(Ok(<<>>), sm)
    ELSE
        LET f == Head(fields)
            v == Head(vs)
            r == IF ~f[3] THEN SerializerMap_serialize_entry(sm, <<TString, f[1]>>, <<f[2], v>>)
                 ELSE IF Kind(f[2]) = "option"
                      THEN IF v = None THEN Returned(Ok(<<>>), sm)
                           ELSE IF Kind(f[2][2]) = "struct"
                                THEN FlatMap_fields(f[2][2][3], v[1], sm)
                                ELSE Returned(Err(Error_into("Message",
                                        "can only flatten structs and maps")), sm)
                      ELSE IF Kind(f[2]) = "struct"
                           THEN FlatMap_fields(f[2][3], v, sm)
                           ELSE Returned(Err(Error_into("Message",
                                        "can only flatten structs and maps")), sm)
        IN  IF IsOk(r.res) THEN FlatMap_fields(Tail(fields), Tail(vs), r.sm) ELSE r

\* the fields serde's derive passes to serialize_struct for an enum value that is
\* internally or adjacently tagged, or an untagged struct variant
EnumAsStruct(T, v) ==
    LET decl == VariantNamed(T, v[1])
        repr == T[2]
    IN  CASE repr[1] = "internal" ->
                [fields |-> <<Field(repr[2], TString)>> \o
                            (IF decl[2] = "struct" THEN decl[3] ELSE <<>>),
                 values |-> <<v[1]>> \o (IF decl[2] = "struct" THEN v[2] ELSE <<>>)]
          [] repr[1] = "adjacent" ->
                IF decl[2] = "unit"
                THEN [fields |-> <<Field(repr[2], TString)>>, values |-> <<v[1]>>]
                ELSE [fields |-> <<Field(repr[2], TString),
                                   Field(repr[3],
                                         CASE decl[2] = "newtype" -> decl[3]
                                           [] decl[2] = "tuple" -> TTuple(decl[3])
                                           [] decl[2] = "struct" -> TStruct("content", decl[3]))>>,
                      values |-> <<v[1], v[2]>>]
          [] repr[1] = "untagged" -> [fields |-> decl[3], values |-> v[2]]

\* Serializer::serialize_newtype_struct when the name is the set sentinel
convert_item(kind, err, vals) ==
    IF \A i \in 1..Len(vals) : vals[i][1] = kind
    THEN Ok([i \in 1..Len(vals) |-> vals[i][2]])
    ELSE Err(Error_into(err, ""))

\* a handler without the check for an empty sequence
Serializer_serialize_set_no_empty_check(av) ==
    IF ~IsOk(av) THEN av
    ELSE IF av[2][1] # "L" THEN Err(Error_into("NotSetlike", ""))
    ELSE LET vals == av[2][2] IN
         CASE vals # <<>> /\ vals[1][1] = "S" ->
                 LET set == convert_item("S", "SetNotHomogenous", vals)
                 IN  IF IsOk(set) THEN Ok(AvSs(set[2])) ELSE set
            [] vals # <<>> /\ vals[1][1] = "N" ->
                 LET set == convert_item("N", "SetNotHomogenous", vals)
                 IN  IF IsOk(set) THEN Ok(AvNs(set[2])) ELSE set
            [] vals # <<>> /\ vals[1][1] = "B" ->
                 LET set == convert_item("B", "SetNotHomogenous", vals)
                 IN  IF IsOk(set) THEN Ok(AvBs(set[2])) ELSE set
            [] OTHER -> Err(Error_into("SetInvalidItem", ""))

Serializer_serialize_set(av) ==
    IF ~IsOk(av) THEN av
    ELSE IF av[2][1] # "L" THEN Err(Error_into("NotSetlike", ""))
    ELSE LET vals == av[2][2] IN
         IF vals = <<>> THEN Err(Error_into("SetEmpty", ""))
         ELSE CASE vals[1][1] = "S" ->
                     LET set == convert_item("S", "SetNotHomogenous", vals)
                     IN  IF IsOk(set) THEN Ok(AvSs(set[2])) ELSE set
                [] vals[1][1] = "N" ->
                     LET set == convert_item("N", "SetNotHomogenous", vals)
                     IN  IF IsOk(set) THEN Ok(AvNs(set[2])) ELSE set
                [] vals[1][1] = "B" ->
                     LET set == convert_item("B", "SetNotHomogenous", vals)
                     IN  IF IsOk(set) THEN Ok(AvBs(set[2])) ELSE set
                [] OTHER -> Err(Error_into("SetInvalidItem", ""))

Serializer_serialize(T, v) ==
    LET k == Kind(T) IN
    CASE k = "int" ->
            IF T[2] \in {"i128", "u128"}
            THEN Err(Error_into("Message", "i128 is not supported"))
            ELSE Ok(AvN(to_string(v)))
      [] k = "string" -> Ok(AvS(v))
      [] k = "char" -> Ok(AvS(<<v>>))
      [] k = "bool" -> Ok(AvBool(v))
      [] k = "json" -> Value_serialize(v)
      [] k = "bytes" -> Ok(AvB(v))
      [] k = "unit" -> Ok(AvNull(TRUE))
      [] k = "unit_struct" -> Ok(AvNull(TRUE))
      [] k = "option" ->
            IF v = None THEN Ok(AvNull(TRUE)) ELSE Serializer_serialize(T[2], v[1])
      [] k = "seq" ->
            SerializerSeq_end(SerializerSeq_elements([i \in 1..Len(v) |-> T[2]], v, <<>>))
      [] k = "tuple" -> SerializerSeq_end(SerializerSeq_elements(T[2], v, <<>>))
      [] k = "tuple_struct" -> SerializerSeq_end(SerializerSeq_elements(T[3], v, <<>>))
      [] k = "map" -> SerializerMap_entries(T, v, SetToSeq(DOMAIN v), SerializerMap_new)
      [] k = "struct" ->
            IF HasFlatten(T)
            THEN LET r == FlatMap_fields(T[3], v, SerializerMap_new)
                 IN  IF IsOk(r.res) THEN SerializerMap_end(r.sm) ELSE r.res
            ELSE SerializerStruct_end(SerializerStruct_fields(T[3], v, EmptyMap))
      [] k = "newtype_struct" ->
            IF ptr_eq(T[2], NEWTYPE_SYMBOL)
            THEN Serializer_serialize_set(Serializer_serialize(T[3], v))
            ELSE Serializer_serialize(T[3], v)
      [] k = "enum" ->
            LET call == EnumCall(T, v)
                decl == VariantNamed(T, v[1])
            IN
            CASE call = "unit_variant" -> Ok(AvS(v[1]))
              [] call = "newtype_variant" ->
                    WrapVariant(v[1], Serializer_serialize(decl[3], v[2]))
              [] call = "tuple_variant" ->
                    WrapVariant(v[1],
                        SerializerSeq_end(SerializerSeq_elements(decl[3], v[2], <<>>)))
              [] call = "struct_variant" ->
                    WrapVariant(v[1],
                        SerializerStruct_end(SerializerStruct_fields(decl[3], v[2], EmptyMap)))
              [] call = "struct" ->
                    LET s == EnumAsStruct(T, v)
                    IN  SerializerStruct_end(
                            SerializerStruct_fields(s.fields, s.values, EmptyMap))
              [] call = "unit" -> Ok(AvNull(TRUE))
              [] call = "inner" -> Serializer_serialize(decl[3], v[2])
              [] call = "tuple" -> SerializerSeq_end(SerializerSeq_elements(decl[3], v[2], <<>>))

\* ser/mod.rs
to_attribute_value(T, v) == Serializer_serialize(T, v)

to_item(T, v) ==
    LET av == to_attribute_value(T, v)
    IN  IF ~IsOk(av) THEN av
        ELSE IF av[2][1] = "M" THEN Ok(av[2][2])
        ELSE Err(Error_into("NotMaplike", ""))

(***************************************************************************)
(* ser/tests.rs, assert_identical_json: serde_json::to_value, and          *)
(* serde_json::Value handed to to_attribute_value.                         *)
(*   Value: <<"Null">>, <<"Bool", b>>, <<"Number", <<"PosInt", n>>>>,      *)
(*          <<"Number", <<"NegInt", n>>>>, <<"String", text>>,             *)
(*          <<"Array", sequence>>, <<"Object", function from text>>        *)
(***************************************************************************)
JNull == <<"Null">>
JBool(b) == <<"Bool", b>>
JNumber(n) == <<"Number", IF n.neg THEN <<"NegInt", n>> ELSE <<"PosInt", n>> >>
JString(s) == <<"String", s>>
JArray(a) == <<"Array", a>>
JObject(m) == <<"Object", m>>

\* serde_json::Value as a type that implements Serialize
TJson == <<"json">>

key_must_be_a_string == Err("key must be a string")

\* u8 as a number
RECURSIVE Number_from_u8(_)
Number_from_u8(b) ==
    IF b < 10 THEN <<b>> ELSE Append(Number_from_u8(b \div 10), b % 10)

\* serde_json's map key serializer
RECURSIVE serde_json_MapKeySerializer(_, _)
serde_json_MapKeySerializer(T, v) ==
    LET k == Kind(T) IN
    CASE k = "int" ->
            IF T[2] \in {"i128", "u128"} THEN key_must_be_a_string ELSE Ok(to_string(v))
      [] k = "string" -> Ok(v)
      [] k = "char" -> Ok(<<v>>)
      [] k = "newtype_struct" -> serde_json_MapKeySerializer(T[3], v)
      [] k = "enum" ->
            (LET call == EnumCall(T, v) IN
             CASE call = "unit_variant" -> Ok(v[1])
               [] call = "inner" ->
                     serde_json_MapKeySerializer(VariantNamed(T, v[1])[3], v[2])
               [] OTHER -> key_must_be_a_string)
      [] OTHER -> key_must_be_a_string

RECURSIVE serde_json_to_value(_, _)

RECURSIVE to_value_elements(_, _, _)
to_value_elements(Ts, vs, vec) ==
    IF vs = <<>> THEN Ok(JArray(vec))
    ELSE LET j == serde_json_to_value(Head(Ts), Head(vs))
         IN  IF IsOk(j) THEN to_value_elements(Tail(Ts), Tail(vs), Append(vec, j[2]))
             ELSE j

RECURSIVE to_value_fields(_, _, _)
to_value_fields(fields, vs, obj) ==
    IF vs = <<>> THEN Ok(JObject(obj))
    ELSE LET j == serde_json_to_value(Head(fields)[2], Head(vs))
         IN  IF IsOk(j)
             THEN to_value_fields(Tail(fields), Tail(vs), MapInsert(obj, Head(fields)[1], j[2]))
             ELSE j

RECURSIVE to_value_entries(_, _, _, _)
to_value_entries(T, m, keys, obj) ==
    IF keys = <<>> THEN Ok(JObject(obj))
    ELSE LET k == serde_json_MapKeySerializer(T[2], Head(keys))
             j == serde_json_to_value(T[3], m[Head(keys)])
         IN  IF ~IsOk(k) THEN k
             ELSE IF ~IsOk(j) THEN j
             ELSE to_value_entries(T, m, Tail(keys), MapInsert(obj, k[2], j[2]))

\* a struct that has a flattened field, through serde's FlatMapSerializer
RECURSIVE to_value_flat(_, _, _)
to_value_flat(fields, vs, obj) ==
    IF vs = <<>> THEN Ok(obj)
    ELSE
        LET f == Head(fields)
            v == Head(vs)
            j == serde_json_to_value(f[2], v)
            r == IF ~f[3]
                 THEN IF IsOk(j) THEN Ok(MapInsert(obj, f[1], j[2])) ELSE j
                 ELSE IF Kind(f[2]) = "option"
                      THEN IF v = None THEN Ok(obj)
                           ELSE IF Kind(f[2][2]) = "struct"
                                THEN to_value_flat(f[2][2][3], v[1], obj)
                                ELSE Err("can only flatten structs and maps")
                      ELSE IF Kind(f[2]) = "struct"
                           THEN to_value_flat(f[2][3], v, obj)
                           ELSE Err("can only flatten structs and maps")
        IN  IF IsOk(r) THEN to_value_flat(Tail(fields), Tail(vs), r[2]) ELSE r

to_value_variant(variant, content) ==
    IF IsOk(content) THEN Ok(JObject(MapInsert(EmptyMap, variant, content[2]))) ELSE content

\* serde_json::to_value
serde_json_to_value(T, v) ==
    LET k == Kind(T) IN
    CASE k = "int" ->
            IF T[2] \in {"i128", "u128"} THEN Err("i128 is not supported")
            ELSE Ok(JNumber(v))
      [] k = "string" -> Ok(JString(v))
      [] k = "char" -> Ok(JString(<<v>>))
      [] k = "bool" -> Ok(JBool(v))
      [] k = "bytes" ->
            Ok(JArray([i \in 1..Len(v) |-> JNumber(IntVal(FALSE, Number_from_u8(v[i])))]))
      [] k = "unit" -> Ok(JNull)
      [] k = "unit_struct" -> Ok(JNull)
      [] k = "option" -> IF v = None THEN Ok(JNull) ELSE serde_json_to_value(T[2], v[1])
      [] k = "seq" -> to_value_elements([i \in 1..Len(v) |-> T[2]], v, <<>>)
      [] k = "tuple" -> to_value_elements(T[2], v, <<>>)
      [] k = "tuple_struct" -> to_value_elements(T[3], v, <<>>)
      [] k = "map" -> to_value_entries(T, v, SetToSeq(DOMAIN v), EmptyMap)
      [] k = "struct" ->
            IF HasFlatten(T)
            THEN LET r == to_value_flat(T[3], v, EmptyMap)
                 IN  IF IsOk(r) THEN Ok(JObject(r[2])) ELSE r
            ELSE to_value_fields(T[3], v, EmptyMap)
      [] k = "newtype_struct" -> serde_json_to_value(T[3], v)
      [] k = "enum" ->
            LET call == EnumCall(T, v)
                decl == VariantNamed(T, v[1])
            IN
            CASE call = "unit_variant" -> Ok(JString(v[1]))
              [] call = "newtype_variant" ->
                    to_value_variant(v[1], serde_json_to_value(decl[3], v[2]))
              [] call = "tuple_variant" ->
                    to_value_variant(v[1], to_value_elements(decl[3], v[2], <<>>))
              [] call = "struct_variant" ->
                    to_value_variant(v[1], to_value_fields(decl[3], v[2], EmptyMap))
              [] call = "struct" ->
                    LET s == EnumAsStruct(T, v)
                    IN  to_value_fields(s.fields, s.values, EmptyMap)
              [] call = "unit" -> Ok(JNull)
              [] call = "inner" -> serde_json_to_value(decl[3], v[2])
              [] call = "tuple" -> to_value_elements(decl[3], v[2], <<>>)

\* impl Serialize for serde_json::Value, on the Serializer of this crate
Value_serialize(j) ==
    LET k == j[1] IN
    CASE k = "Null" -> Serializer_serialize(TUnit, <<>>)
      [] k = "Bool" -> Serializer_serialize(TBool, j[2])
      [] k = "Number" ->
            (CASE j[2][1] = "PosInt" -> Serializer_serialize(TInt("u64"), j[2][2])
               [] j[2][1] = "NegInt" -> Serializer_serialize(TInt("i64"), j[2][2]))
      [] k = "String" -> Serializer_serialize(TString, j[2])
      [] k = "Array" -> Serializer_serialize(TSeq(TJson), j[2])
      [] k = "Object" -> Serializer_serialize(TMap(TString, TJson), j[2])

(***************************************************************************)
(* error.rs: ErrorPath and Error::from_path                                *)
(***************************************************************************)
Root == <<"Root">>
PathField(name, parent) == <<"Field", name, parent>>
PathElem(i, parent) == <<"Elem", i, parent>>
PathEnum(name, parent) == <<"Enum", name, parent>>

\* the segments in the order visit_path_depth_first hands them to its callback
RECURSIVE visit_path_depth_first(_)
visit_path_depth_first(path) ==
    IF path[1] = "Root" THEN <<>>
    ELSE Append(visit_path_depth_first(path[3]), path)

\* Display for usize
RECURSIVE usize_to_string(_)
usize_to_string(i) ==
    IF i < 10 THEN <<Digits[i + 1]>>
    ELSE Append(usize_to_string(i \div 10), Digits[(i % 10) + 1])

\* the closure of from_path: the segment's text, then a '.'
push_segment(segment) ==
    (CASE segment[1] = "Field" -> segment[2]
       [] segment[1] = "Elem" -> <<"[">> \o usize_to_string(segment[2]) \o <<"]">>
       [] segment[1] = "Enum" -> segment[2]) \o <<".">>

RECURSIVE push_segments(_)
push_segments(segments) ==
    IF segments = <<>> THEN <<>>
    ELSE push_segment(Head(segments)) \o push_segments(Tail(segments))

\* String::pop
pop(str) == IF str = <<>> THEN <<>> ELSE SubSeq(str, 1, Len(str) - 1)

render_path(path) == pop(push_segments(visit_path_depth_first(path)))

Error_from_path(kind, path, input) == Error_new(kind, "", render_path(path), input)

\* de::Error::custom, through impl Into<Error> for ErrorImpl
Custom(msg) == Err(Error_into("Message", msg))

(***************************************************************************)
(* What the visitor of a type accepts when a deserializer hands it a       *)
(* scalar: <<"i64", n>>, <<"u64", n>>, <<"f64", text>>, <<"string", text>>,*)
(* <<"bool", b>>, <<"bytes", b>>, <<"unit">>.  A visitor that does not     *)
(* implement the method answers serde's "invalid type" custom error.       *)
(***************************************************************************)
InvalidType == Custom("invalid type")
InvalidValue == Custom("invalid value")
InvalidLength == Custom("invalid length")
MissingField == Custom("missing field")
UnknownVariant == Custom("unknown variant")
NoVariantMatched == Custom("data did not match any variant of untagged enum")
I128Unsupported == Custom("i128 is not supported")

visit(T, prim) ==
    LET k == Kind(T)
        p == prim[1]
    IN
    CASE k = "int" /\ p \in {"i64", "u64"} ->
            IF InRange(T[2], prim[2]) THEN Ok(prim[2]) ELSE InvalidValue
      [] k = "string" /\ p = "string" -> Ok(prim[2])
      [] k = "char" /\ p = "string" ->
            IF Len(prim[2]) = 1 THEN Ok(prim[2][1]) ELSE InvalidValue
      [] k = "bool" /\ p = "bool" -> Ok(prim[2])
      [] k = "unit" /\ p = "unit" -> Ok(<<>>)
      [] k = "unit_struct" /\ p = "unit" -> Ok(<<>>)
      [] k = "option" /\ p = "unit" -> Ok(None)
      [] k = "bytes" /\ p = "bytes" -> Ok(prim[2])
      [] OTHER -> InvalidType

(***************************************************************************)
(* de/deserializer_number.rs                                               *)
(***************************************************************************)
RECURSIVE DigitsEnd(_, _)
DigitsEnd(s, i) == IF i <= Len(s) /\ IsDigit(s[i]) THEN DigitsEnd(s, i + 1) ELSE i

ToLower(c) ==
    CASE c = "I" -> "i" [] c = "N" -> "n" [] c = "F" -> "f"
      [] c = "T" -> "t" [] c = "Y" -> "y" [] c = "A" -> "a" [] OTHER -> c

\* f64::from_str succeeds
parses_as_f64(s) ==
    LET start == IF s # <<>> /\ s[1] \in {"+", "-"} THEN 2 ELSE 1
        lower == [i \in 1..(Len(s) - start + 1) |-> ToLower(s[start + i - 1])]
        intEnd == DigitsEnd(s, start)
        fracStart == IF intEnd <= Len(s) /\ s[intEnd] = "." THEN intEnd + 1 ELSE intEnd
        fracEnd == DigitsEnd(s, fracStart)
        ndigits == (intEnd - start) + (fracEnd - fracStart)
        expStart == IF fracEnd + 1 <= Len(s) /\ s[fracEnd + 1] \in {"+", "-"}
                    THEN fracEnd + 2 ELSE fracEnd + 1
    IN  \/ lower \in { <<"i","n","f">>, <<"i","n","f","i","n","i","t","y">>, <<"n","a","n">> }
        \/ /\ ndigits > 0
           /\ \/ fracEnd = Len(s) + 1
              \/ /\ s[fracEnd] \in {"e", "E"}
                 /\ expStart <= Len(s)
                 /\ DigitsEnd(s, expStart) = Len(s) + 1

\* mutant: the unsigned probe comes first
DeserializerNumber_deserialize_number_unsigned_first(input) ==
    or_else(and_then(parse_int("u64", input), LAMBDA u : Ok(<<"u64", u>>)),
            LAMBDA e1 :
                or_else(and_then(parse_int("i64", input), LAMBDA i : Ok(<<"i64", i>>)),
                        LAMBDA e2 :
                            IF parses_as_f64(input) THEN Ok(<<"f64", input>>)
                            ELSE Err(Error_into("FailedToParseFloat",
                                                "invalid float literal"))))

\* DeserializerNumber::deserialize_number: the scalar handed to the visitor
DeserializerNumber_deserialize_number(input) ==
    or_else(and_then(parse_int("i64", input), LAMBDA i : Ok(<<"i64", i>>)),
            LAMBDA e1 :
                or_else(and_then(parse_int("u64", input), LAMBDA u : Ok(<<"u64", u>>)),
                        LAMBDA e2 :
                            IF parses_as_f64(input) THEN Ok(<<"f64", input>>)
                            ELSE Err(Error_into("FailedToParseFloat",
                                                "invalid float literal"))))

\* deserialize_int!
DeserializerNumber_deserialize_int(w, input) ==
    or_else(parse_int(w, input), LAMBDA n : Err(Error_into("FailedToParseInt", n[2])))

\* T::deserialize(DeserializerNumber)
DeserializerNumber_deserialize(T, input) ==
    IF Kind(T) = "int"
    THEN IF T[2] \in {"i128", "u128"} THEN I128Unsupported
         ELSE DeserializerNumber_deserialize_int(T[2], input)
    ELSE and_then(DeserializerNumber_deserialize_number(input), LAMBDA prim : visit(T, prim))

\* EnumAccess for a string: the unit variant of that name
StringDeserializer_unit_variant(T, input) ==
    LET decl == VariantNamed(T, input)
    IN  IF decl = <<>> THEN UnknownVariant
        ELSE IF decl[2] = "unit" THEN Ok(<<input, <<>> >>)
        ELSE InvalidType

(***************************************************************************)
(* serde's buffered Content and its ContentDeserializer: what an           *)
(* internally tagged, adjacently tagged or untagged enum and a struct with *)
(* a flattened field are deserialized from, after deserialize_any has      *)
(* buffered the input.                                                     *)
(*   <<"I64", n>>, <<"U64", n>>, <<"F64", text>>, <<"String", text>>,      *)
(*   <<"Bool", b>>, <<"ByteBuf", bytes>>, <<"Unit">>, <<"Seq", contents>>, *)
(*   <<"Map", sequence of <<key content, value content>> >>                *)
(***************************************************************************)
RECURSIVE ContentDeserializer_deserialize(_, _)
RECURSIVE Content_seq(_, _, _, _)
RECURSIVE Content_tuple(_, _, _, _)
RECURSIVE Content_map(_, _, _)
RECURSIVE Content_struct(_, _, _)
RECURSIVE Content_untagged(_, _, _)
RECURSIVE Content_external(_, _)
RECURSIVE Content_variant(_, _)
RECURSIVE Content_internal(_, _)

\* the value of every field, or serde's missing_field: None for an Option
RECURSIVE Struct_finish(_, _, _, _)
Struct_finish(fields, found, i, acc) ==
    IF i > Len(fields) THEN Ok(acc)
    ELSE IF i \in DOMAIN found THEN Struct_finish(fields, found, i + 1, Append(acc, found[i]))
    ELSE IF Kind(fields[i][2]) = "option"
         THEN Struct_finish(fields, found, i + 1, Append(acc, None))
         ELSE MissingField

FieldIndex(fields, name) ==
    LET hits == {i \in 1..Len(fields) : fields[i][1] = name /\ ~fields[i][3]}
    IN  IF hits = {} THEN 0 ELSE CHOOSE i \in hits : TRUE

\* Vec<T>'s visitor over the elements of a Content::Seq
Content_seq(T, cs, i, acc) ==
    IF i > Len(cs) THEN Ok(acc)
    ELSE and_then(ContentDeserializer_deserialize(T, cs[i]),
                  LAMBDA v : Content_seq(T, cs, i + 1, Append(acc, v)))

\* a tuple's or a struct's visit_seq over the elements of a Content::Seq
Content_tuple(Ts, cs, i, acc) ==
    IF i > Len(Ts) THEN Ok(acc)
    ELSE IF i > Len(cs) THEN InvalidLength
    ELSE and_then(ContentDeserializer_deserialize(Ts[i], cs[i]),
                  LAMBDA v : Content_tuple(Ts, cs, i + 1, Append(acc, v)))

\* a map's visitor over the entries of a Content::Map
Content_map(T, entries, acc) ==
    IF entries = <<>> THEN Ok(acc)
    ELSE and_then(ContentDeserializer_deserialize(T[2], Head(entries)[1]),
                  LAMBDA key :
                      and_then(ContentDeserializer_deserialize(T[3], Head(entries)[2]),
                               LAMBDA v : Content_map(T, Tail(entries),
                                                      MapInsert(acc, key, v))))

\* a derived struct's visit_map over the entries of a Content::Map
Content_struct(fields, entries, found) ==
    IF entries = <<>> THEN Struct_finish(fields, found, 1, <<>>)
    ELSE LET key == Head(entries)[1]
             i == IF key[1] = "String" THEN FieldIndex(fields, key[2]) ELSE 0
         IN  IF key[1] # "String" THEN InvalidType
             ELSE IF i = 0 THEN Content_struct(fields, Tail(entries), found)
             ELSE and_then(ContentDeserializer_deserialize(fields[i][2], Head(entries)[2]),
                           LAMBDA v : Content_struct(fields, Tail(entries),
                                                     MapInsert(found, i, v)))

\* an untagged enum: the first variant, in declaration order, that the content matches
Content_untagged(T, c, i) ==
    IF i > Len(T[3]) THEN NoVariantMatched
    ELSE or_else(and_then(Content_variant(T[3][i], c), LAMBDA v : Ok(<<T[3][i][1], v>>)),
                 LAMBDA e : Content_untagged(T, c, i + 1))

\* the payload of a variant whose content has been buffered
Content_variant(decl, c) ==
    CASE decl[2] = "unit" -> IF c[1] = "Unit" THEN Ok(<<>>) ELSE InvalidType
      [] decl[2] = "newtype" -> ContentDeserializer_deserialize(decl[3], c)
      [] decl[2] = "tuple" ->
            IF c[1] = "Seq" THEN Content_tuple(decl[3], c[2], 1, <<>>) ELSE InvalidType
      [] decl[2] = "struct" ->
            CASE c[1] = "Map" -> Content_struct(decl[3], c[2], <<>>)
              [] c[1] = "Seq" ->
                    Content_tuple([j \in 1..Len(decl[3]) |-> decl[3][j][2]], c[2], 1, <<>>)
              [] OTHER -> InvalidType

\* ContentDeserializer::deserialize_enum: a string names a unit variant, a map with
\* one entry names the variant and carries its payload
Content_external(T, c) ==
    CASE c[1] = "String" -> StringDeserializer_unit_variant(T, c[2])
      [] c[1] = "Map" ->
            IF Len(c[2]) # 1 THEN InvalidValue
            ELSE IF c[2][1][1][1] # "String" THEN InvalidType
            ELSE LET decl == VariantNamed(T, c[2][1][1][2])
                 IN  IF decl = <<>> THEN UnknownVariant
                     ELSE and_then(Content_variant(decl, c[2][1][2]),
                                   LAMBDA v : Ok(<<decl[1], v>>))
      [] OTHER -> InvalidType

\* serde's TaggedContentVisitor::visit_map and the variant read from the other entries
Content_internal(T, c) ==
    IF c[1] # "Map" THEN InvalidType
    ELSE LET tag == <<"String", T[2][2]>>
             tags == {i \in 1..Len(c[2]) : c[2][i][1] = tag}
             rest == SelectSeq(c[2], LAMBDA e : e[1] # tag)
         IN  IF tags = {} THEN MissingField
             ELSE LET t == c[2][CHOOSE i \in tags : TRUE][2]
                      decl == IF t[1] = "String" THEN VariantNamed(T, t[2]) ELSE <<>>
                  IN  IF t[1] # "String" THEN InvalidType
                      ELSE IF decl = <<>> THEN UnknownVariant
                      ELSE CASE decl[2] = "unit" -> Ok(<<decl[1], <<>> >>)
                             [] decl[2] = "struct" ->
                                   and_then(Content_struct(decl[3], rest, <<>>),
                                            LAMBDA v : Ok(<<decl[1], v>>))

ContentDeserializer_deserialize(T, c) ==
    LET k == Kind(T)
        ck == c[1]
    IN
    CASE k = "int" ->
            IF T[2] \in {"i128", "u128"} THEN I128Unsupported
            ELSE (CASE ck = "I64" -> visit(T, <<"i64", c[2]>>)
                    [] ck = "U64" -> visit(T, <<"u64", c[2]>>)
                    [] OTHER -> InvalidType)
      [] k = "string" -> IF ck = "String" THEN Ok(c[2]) ELSE InvalidType
      [] k = "char" -> IF ck = "String" THEN visit(T, <<"string", c[2]>>) ELSE InvalidType
      [] k = "bool" -> IF ck = "Bool" THEN Ok(c[2]) ELSE InvalidType
      [] k = "unit" -> IF ck = "Unit" THEN Ok(<<>>) ELSE InvalidType
      [] k = "unit_struct" -> IF ck = "Unit" THEN Ok(<<>>) ELSE InvalidType
      [] k = "bytes" -> IF ck = "ByteBuf" THEN Ok(c[2]) ELSE InvalidType
      [] k = "option" ->
            IF ck = "Unit" THEN Ok(None)
            ELSE and_then(ContentDeserializer_deserialize(T[2], c), LAMBDA v : Ok(Some(v)))
      [] k = "seq" -> IF ck = "Seq" THEN Content_seq(T[2], c[2], 1, <<>>) ELSE InvalidType
      [] k = "tuple" -> IF ck = "Seq" THEN Content_tuple(T[2], c[2], 1, <<>>) ELSE InvalidType
      [] k = "tuple_struct" ->
            IF ck = "Seq" THEN Content_tuple(T[3], c[2], 1, <<>>) ELSE InvalidType
      [] k = "map" -> IF ck = "Map" THEN Content_map(T, c[2], <<>>) ELSE InvalidType
      [] k = "struct" /\ ~HasFlatten(T) ->
            (CASE ck = "Map" -> Content_struct(T[3], c[2], <<>>)
               [] ck = "Seq" ->
                     Content_tuple([j \in 1..Len(T[3]) |-> T[3][j][2]], c[2], 1, <<>>)
               [] OTHER -> InvalidType)
      [] k = "newtype_struct" -> ContentDeserializer_deserialize(T[3], c)
      [] k = "enum" /\ T[2][1] = "untagged" -> Content_untagged(T, c, 1)
      [] k = "enum" /\ T[2][1] = "external" -> Content_external(T, c)
      [] k = "enum" /\ T[2][1] = "internal" /\ ck # "Seq" -> Content_internal(T, c)

(***************************************************************************)
(* de/deserializer_bytes.rs                                                *)
(***************************************************************************)
DeserializerBytes_deserialize(T, input) ==
    IF Kind(T) = "int" /\ T[2] \in {"i128", "u128"} THEN I128Unsupported
    ELSE visit(T, <<"bytes", input>>)

(***************************************************************************)
(* serde's StringDeserializer, which deserializer_seq.rs and               *)
(* deserializer_enum.rs obtain from String::into_deserializer              *)
(***************************************************************************)
StringDeserializer_deserialize(T, input) ==
    CASE Kind(T) = "int" /\ T[2] \in {"i128", "u128"} -> I128Unsupported
      [] Kind(T) = "enum" /\ T[2][1] = "external" -> StringDeserializer_unit_variant(T, input)
      [] Kind(T) = "enum" /\ T[2][1] = "untagged" -> Content_untagged(T, <<"String", input>>, 1)
      [] Kind(T) = "newtype_struct" -> InvalidType
      [] OTHER -> visit(T, <<"string", input>>)

(***************************************************************************)
(* de/deserializer_map.rs                                                  *)
(***************************************************************************)
Reverse(seq) == [i \in 1..Len(seq) |-> seq[Len(seq) + 1 - i]]

\* the keys of a HashMap in the order its drain yields them
Drain(m) ==
    IF drain = "ascending" THEN SetToSeq(DOMAIN m) ELSE Reverse(SetToSeq(DOMAIN m))

\* K::deserialize(DeserializerMapKey)
RECURSIVE DeserializerMapKey_deserialize(_, _, _)
DeserializerMapKey_deserialize(K, input, path) ==
    LET k == Kind(K) IN
    CASE k = "int" ->
            or_else(parse_int(K[2], input),
                    LAMBDA e : Err(Error_from_path("ExpectedNum", path, Some(AvN(input)))))
      [] k = "bool" ->
            (CASE input = <<"t", "r", "u", "e">> -> Ok(TRUE)
               [] input = <<"f", "a", "l", "s", "e">> -> Ok(FALSE)
               [] OTHER -> Err(Error_from_path("ExpectedString", path, Some(AvS(input)))))
      [] k = "enum" /\ K[2][1] = "external" -> StringDeserializer_unit_variant(K, input)
      [] k = "enum" /\ K[2][1] = "untagged" -> Content_untagged(K, <<"String", input>>, 1)
      [] k = "enum" /\ K[2][1] \in {"internal", "adjacent"} -> InvalidType
      [] k = "newtype_struct" -> DeserializerMapKey_deserialize(K[3], input, path)
      [] OTHER -> visit(K, <<"string", input>>)

(***************************************************************************)
(* de/deserializer.rs: deserialize_any, as serde's Content and IgnoredAny  *)
(* visitors drive it                                                       *)
(***************************************************************************)
RECURSIVE Deserializer_deserialize_any(_, _)
RECURSIVE deserialize_any_elements(_, _, _, _)
RECURSIVE deserialize_any_entries(_, _, _, _)

\* DeserializerNumber::deserialize_any into a Content
DeserializerNumber_deserialize_any(input) ==
    and_then(DeserializerNumber_deserialize_number(input),
             LAMBDA prim : CASE prim[1] = "i64" -> Ok(<<"I64", prim[2]>>)
                             [] prim[1] = "u64" -> Ok(<<"U64", prim[2]>>)
                             [] prim[1] = "f64" -> Ok(<<"F64", prim[2]>>))

\* the element deserializer of each sequence access, by the kind of the input
deserialize_any_element(av, i, path) ==
    CASE av[1] = "L" -> Deserializer_deserialize_any(av[2][i], PathElem(i - 1, path))
      [] av[1] = "Ss" -> Ok(<<"String", av[2][i]>>)
      [] av[1] = "Ns" -> DeserializerNumber_deserialize_any(av[2][i])
      [] av[1] = "Bs" -> Ok(<<"ByteBuf", av[2][i]>>)

deserialize_any_elements(av, i, path, acc) ==
    IF i > Len(av[2]) THEN Ok(<<"Seq", acc>>)
    ELSE and_then(deserialize_any_element(av, i, path),
                  LAMBDA c : deserialize_any_elements(av, i + 1, path, Append(acc, c)))

deserialize_any_entries(m, keys, path, acc) ==
    IF keys = <<>> THEN Ok(<<"Map", acc>>)
    ELSE LET key == Head(keys)
         IN  and_then(Deserializer_deserialize_any(m[key], PathField(key, path)),
                      LAMBDA c : deserialize_any_entries(m, Tail(keys), path,
                                                         Append(acc, << <<"String", key>>, c >>)))

Deserializer_deserialize_any(av, path) ==
    CASE av[1] = "N" -> DeserializerNumber_deserialize_any(av[2])
      [] av[1] = "S" -> Ok(<<"String", av[2]>>)
      [] av[1] = "Bool" -> Ok(<<"Bool", av[2]>>)
      [] av[1] = "B" -> Ok(<<"ByteBuf", av[2]>>)
      [] av[1] = "Null" ->
            IF av[2] THEN Ok(<<"Unit">>)
            ELSE Err(Error_from_path("ExpectedUnit", path, Some(av)))
      [] av[1] = "M" -> deserialize_any_entries(av[2], Drain(av[2]), path, <<>>)
      [] av[1] \in {"L", "Ss", "Ns", "Bs"} -> deserialize_any_elements(av, 1, path, <<>>)

(***************************************************************************)
(* de/deserializer.rs, deserializer_seq.rs, deserializer_map.rs,           *)
(* deserializer_enum.rs: T::deserialize(Deserializer { input, path })      *)
(***************************************************************************)
RECURSIVE Deserializer_deserialize(_, _, _)
RECURSIVE visit_seq(_, _, _, _, _)
RECURSIVE visit_tuple(_, _, _, _, _)
RECURSIVE visit_map(_, _, _, _, _)
RECURSIVE visit_struct(_, _, _, _, _)
RECURSIVE visit_flatten(_, _, _, _, _, _)
RECURSIVE FlatMapDeserializer_deserialize(_, _)
RECURSIVE DeserializerVariant_deserialize(_, _, _)
RECURSIVE visit_adjacent(_, _, _, _, _)

\* mutant: the error is built without the path
Deserializer_error_without_path(kind, av, path) == Err(Error_new(kind, "", <<>>, Some(av)))

\* Deserializer::error
Deserializer_error(kind, av, path) == Err(Error_from_path(kind, path, Some(av)))

\* next_element_seed of the sequence access that deserialize_seq builds for the input
next_element_seed(T, av, i, path) ==
    CASE av[1] = "L" -> Deserializer_deserialize(T, av[2][i], PathElem(i - 1, path))
      [] av[1] = "Ss" -> StringDeserializer_deserialize(T, av[2][i])
      [] av[1] = "Ns" -> DeserializerNumber_deserialize(T, av[2][i])
      [] av[1] = "Bs" -> DeserializerBytes_deserialize(T, av[2][i])

\* Vec<T>'s visitor: every element
visit_seq(T, av, i, path, acc) ==
    IF i > Len(av[2]) THEN Ok(acc)
    ELSE and_then(next_element_seed(T, av, i, path),
                  LAMBDA v : visit_seq(T, av, i + 1, path, Append(acc, v)))

\* a tuple's or a struct's visit_seq: one element for each position
visit_tuple(Ts, av, i, path, acc) ==
    IF i > Len(Ts) THEN Ok(acc)
    ELSE IF i > Len(av[2]) THEN InvalidLength
    ELSE and_then(next_element_seed(Ts[i], av, i, path),
                  LAMBDA v : visit_tuple(Ts, av, i + 1, path, Append(acc, v)))

Deserializer_deserialize_seq(T, av, path) ==
    IF av[1] \in {"L", "Ss", "Ns", "Bs"} THEN visit_seq(T, av, 1, path, <<>>)
    ELSE Deserializer_error("ExpectedSeq", av, path)

Deserializer_deserialize_tuple(Ts, av, path) ==
    IF av[1] \in {"L", "Ss", "Ns", "Bs"} THEN visit_tuple(Ts, av, 1, path, <<>>)
    ELSE Deserializer_error("ExpectedSeq", av, path)

\* a map's visitor over DeserializerMap: next_key_seed, then next_value_seed
visit_map(T, m, keys, path, acc) ==
    IF keys = <<>> THEN Ok(acc)
    ELSE LET here == PathField(Head(keys), path)
         IN  and_then(DeserializerMapKey_deserialize(T[2], Head(keys), here),
                      LAMBDA key :
                          and_then(Deserializer_deserialize(T[3], m[Head(keys)], here),
                                   LAMBDA v : visit_map(T, m, Tail(keys), path,
                                                        MapInsert(acc, key, v))))

\* a derived struct's visit_map over DeserializerMap; an unknown key's value goes to
\* IgnoredAny through deserialize_ignored_any
visit_struct(fields, m, keys, path, found) ==
    IF keys = <<>> THEN Struct_finish(fields, found, 1, <<>>)
    ELSE LET key == Head(keys)
             i == FieldIndex(fields, key)
         IN  and_then(IF i = 0
                      THEN Deserializer_deserialize_any(m[key], PathField(key, path))
                      ELSE Deserializer_deserialize(fields[i][2], m[key],
                                                    PathField(key, path)),
                      LAMBDA v : visit_struct(fields, m, Tail(keys), path,
                                              IF i = 0 THEN found
                                              ELSE MapInsert(found, i, v)))

\* mutant: a source that is not a map is reported as a missing sequence
Deserializer_deserialize_map_expected_seq(T, av, path) ==
    IF av[1] = "M" THEN visit_map(T, av[2], Drain(av[2]), path, EmptyMap)
    ELSE Deserializer_error("ExpectedSeq", av, path)

Deserializer_deserialize_map(T, av, path) ==
    IF av[1] = "M" THEN visit_map(T, av[2], Drain(av[2]), path, EmptyMap)
    ELSE Deserializer_error("ExpectedMap", av, path)

\* deserialize_map with a derived struct's visitor
Deserializer_deserialize_fields(fields, av, path) ==
    IF av[1] = "M" THEN visit_struct(fields, av[2], Drain(av[2]), path, <<>>)
    ELSE Deserializer_error("ExpectedMap", av, path)

\* mutant: a struct is always read as a map
Deserializer_deserialize_struct_map_only(fields, av, path) ==
    Deserializer_deserialize_fields(fields, av, path)

Deserializer_deserialize_struct(fields, av, path) ==
    IF av[1] = "L"
    THEN Deserializer_deserialize_tuple([j \in 1..Len(fields) |-> fields[j][2]], av, path)
    ELSE Deserializer_deserialize_fields(fields, av, path)

\* serde's FlatMapDeserializer over the entries a struct with a flattened field has
\* collected: T::deserialize for the flattened field
FlatMapDeserializer_deserialize(T, collect) ==
    CASE Kind(T) = "struct" /\ ~HasFlatten(T) -> Content_struct(T[3], collect, <<>>)
      [] Kind(T) = "map" -> Content_map(T, collect, EmptyMap)
      [] Kind(T) = "option" ->
            or_else(and_then(FlatMapDeserializer_deserialize(T[2], collect),
                             LAMBDA v : Ok(Some(v))),
                    LAMBDA e : Ok(None))
      [] Kind(T) \notin {"struct", "map", "option"} ->
            Custom("can only flatten structs and maps")

\* the value of every field once the map is drained: a flattened field is read from
\* the collected entries, a missing plain field is serde's missing_field
RECURSIVE Flatten_finish(_, _, _, _, _)
Flatten_finish(fields, found, collect, i, acc) ==
    IF i > Len(fields) THEN Ok(acc)
    ELSE IF fields[i][3]
         THEN and_then(FlatMapDeserializer_deserialize(fields[i][2], collect),
                       LAMBDA v : Flatten_finish(fields, found, collect, i + 1,
                                                 Append(acc, v)))
    ELSE IF i \in DOMAIN found
         THEN Flatten_finish(fields, found, collect, i + 1, Append(acc, found[i]))
    ELSE IF Kind(fields[i][2]) = "option"
         THEN Flatten_finish(fields, found, collect, i + 1, Append(acc, None))
         ELSE MissingField

\* visit_map of a derived struct that has a flattened field: a plain field is read
\* from its value, every other entry is buffered as Content
visit_flatten(fields, m, keys, path, found, collect) ==
    IF keys = <<>> THEN Flatten_finish(fields, found, collect, 1, <<>>)
    ELSE LET key == Head(keys)
             i == FieldIndex(fields, key)
         IN  IF i = 0
             THEN and_then(Deserializer_deserialize_any(m[key], PathField(key, path)),
                           LAMBDA c : visit_flatten(fields, m, Tail(keys), path, found,
                                                    Append(collect,
                                                           << <<"String", key>>, c >>)))
             ELSE and_then(Deserializer_deserialize(fields[i][2], m[key],
                                                    PathField(key, path)),
                           LAMBDA v : visit_flatten(fields, m, Tail(keys), path,
                                                    MapInsert(found, i, v), collect))

\* de/deserializer_enum.rs: DeserializerVariant
DeserializerVariant_deserialize(decl, av, path) ==
    CASE decl[2] = "unit" -> Ok(<<>>)
      [] decl[2] = "newtype" -> Deserializer_deserialize(decl[3], av, path)
      [] decl[2] = "tuple" -> Deserializer_deserialize_tuple(decl[3], av, path)
      [] decl[2] = "struct" -> Deserializer_deserialize_fields(decl[3], av, path)

\* mutant: of several entries the first one names the variant
DeserializerEnum_deserialize_first_key(T, m, path) ==
    IF DOMAIN m = {}
    THEN Err(Error_from_path("ExpectedSingleKey", path, None))
    ELSE LET key == CHOOSE k \in DOMAIN m : TRUE
             decl == VariantNamed(T, key)
         IN  IF decl = <<>> THEN UnknownVariant
             ELSE and_then(DeserializerVariant_deserialize(decl, m[key],
                                                           PathEnum(key, path)),
                           LAMBDA v : Ok(<<key, v>>))

\* de/deserializer_enum.rs: DeserializerEnum::variant_seed, then the variant's payload
DeserializerEnum_deserialize(T, m, path) ==
    IF Cardinality(DOMAIN m) # 1
    THEN Err(Error_from_path("ExpectedSingleKey", path, None))
    ELSE LET key == CHOOSE k \in DOMAIN m : TRUE
             decl == VariantNamed(T, key)
         IN  IF decl = <<>> THEN UnknownVariant
             ELSE and_then(DeserializerVariant_deserialize(decl, m[key],
                                                           PathEnum(key, path)),
                           LAMBDA v : Ok(<<key, v>>))

\* the variant named by the value of an adjacently tagged enum's tag
deserialize_identifier(T, av, path) ==
    IF av[1] # "S" THEN Deserializer_error("ExpectedString", av, path)
    ELSE IF VariantNamed(T, av[2]) = <<>> THEN UnknownVariant
    ELSE Ok(VariantNamed(T, av[2]))

\* the payload of an adjacently tagged variant read from its value
deserialize_untagged_variant(decl, av, path) ==
    CASE decl[2] = "newtype" -> Deserializer_deserialize(decl[3], av, path)
      [] decl[2] = "tuple" -> Deserializer_deserialize_tuple(decl[3], av, path)
      [] decl[2] = "struct" /\ av[1] = "M" ->
            Deserializer_deserialize_fields(decl[3], av, path)
      [] decl[2] = "struct" /\ av[1] \in {"L", "Ss", "Ns", "Bs"} ->
            visit_tuple([j \in 1..Len(decl[3]) |-> decl[3][j][2]], av, 1, path, <<>>)
      [] OTHER ->
            and_then(Deserializer_deserialize_any(av, path),
                     LAMBDA c : IF decl[2] = "unit" /\ c = <<"Unit">> THEN Ok(<<>>)
                                ELSE InvalidType)

\* visit_map of an adjacently tagged enum.  st is <<"start">>, <<"tag", decl>>,
\* <<"content", c>> or <<"done", value>>
visit_adjacent(T, m, keys, path, st) ==
    IF keys = <<>>
    THEN CASE st[1] = "done" -> Ok(st[2])
           [] st[1] = "tag" ->
                 IF st[2][2] = "unit" THEN Ok(<<st[2][1], <<>> >>)
                 ELSE IF st[2][2] = "newtype" /\ Kind(st[2][3]) = "option"
                      THEN Ok(<<st[2][1], None>>)
                      ELSE MissingField
           [] OTHER -> MissingField
    ELSE LET key == Head(keys)
             here == PathField(key, path)
         IN  CASE key = T[2][2] /\ st[1] = "start" ->
                    and_then(deserialize_identifier(T, m[key], here),
                             LAMBDA decl : visit_adjacent(T, m, Tail(keys), path,
                                                          <<"tag", decl>>))
               [] key = T[2][2] /\ st[1] = "content" ->
                    and_then(deserialize_identifier(T, m[key], here),
                             LAMBDA decl :
                                 and_then(Content_variant(decl, st[2]),
                                          LAMBDA v : visit_adjacent(T, m, Tail(keys), path,
                                                                    <<"done", <<decl[1], v>> >>)))
               [] key = T[2][3] /\ st[1] = "start" ->
                    and_then(Deserializer_deserialize_any(m[key], here),
                             LAMBDA c : visit_adjacent(T, m, Tail(keys), path,
                                                       <<"content", c>>))
               [] key = T[2][3] /\ st[1] = "tag" ->
                    and_then(deserialize_untagged_variant(st[2], m[key], here),
                             LAMBDA v : visit_adjacent(T, m, Tail(keys), path,
                                                       <<"done", <<st[2][1], v>> >>))
               [] key \notin {T[2][2], T[2][3]} ->
                    and_then(Deserializer_deserialize_any(m[key], here),
                             LAMBDA c : visit_adjacent(T, m, Tail(keys), path, st))

\* mutant: every Null is an absent value
Deserializer_deserialize_option_any_null(T, av, path) ==
    IF av[1] = "Null" THEN Ok(None)
    ELSE and_then(Deserializer_deserialize(T, av, path), LAMBDA v : Ok(Some(v)))

\* Deserializer::deserialize_option with Option<T>'s visitor: visit_none, or
\* visit_some(self), which is T::deserialize of the same deserializer
Deserializer_deserialize_option(T, av, path) ==
    IF av = AvNull(TRUE) THEN Ok(None)
    ELSE and_then(Deserializer_deserialize(T, av, path), LAMBDA v : Ok(Some(v)))

Deserializer_deserialize(T, av, path) ==
    LET k == Kind(T) IN
    CASE k = "int" ->
            IF T[2] \in {"i128", "u128"} THEN I128Unsupported
            ELSE IF av[1] = "N" THEN DeserializerNumber_deserialize_int(T[2], av[2])
            ELSE Deserializer_error("ExpectedNum", av, path)
      [] k = "string" ->
            IF av[1] = "S" THEN Ok(av[2]) ELSE Deserializer_error("ExpectedString", av, path)
      [] k = "char" ->
            IF av[1] = "S" /\ Len(av[2]) = 1 THEN Ok(av[2][1])
            ELSE Deserializer_error("ExpectedChar", av, path)
      [] k = "bool" ->
            IF av[1] = "Bool" THEN Ok(av[2]) ELSE Deserializer_error("ExpectedBool", av, path)
      [] k = "unit" ->
            IF av = AvNull(TRUE) THEN Ok(<<>>) ELSE Deserializer_error("ExpectedUnit", av, path)
      [] k = "unit_struct" ->
            IF av = AvNull(TRUE) THEN Ok(<<>>)
            ELSE Deserializer_error("ExpectedUnitStruct", av, path)
      [] k = "bytes" ->
            IF av[1] = "B" THEN DeserializerBytes_deserialize(T, av[2])
            ELSE Deserializer_error("ExpectedBytes", av, path)
      [] k = "option" -> Deserializer_deserialize_option(T[2], av, path)
      [] k = "seq" -> Deserializer_deserialize_seq(T[2], av, path)
      [] k = "tuple" -> Deserializer_deserialize_tuple(T[2], av, path)
      [] k = "tuple_struct" -> Deserializer_deserialize_tuple(T[3], av, path)
      [] k = "map" -> Deserializer_deserialize_map(T, av, path)
      [] k = "struct" ->
            IF ~HasFlatten(T) THEN Deserializer_deserialize_struct(T[3], av, path)
            ELSE IF av[1] = "M"
                 THEN visit_flatten(T[3], av[2], Drain(av[2]), path, <<>>, <<>>)
                 ELSE Deserializer_error("ExpectedMap", av, path)
      [] k = "newtype_struct" -> Deserializer_deserialize(T[3], av, path)
      [] k = "enum" /\ T[2][1] = "external" ->
            (CASE av[1] = "S" -> StringDeserializer_unit_variant(T, av[2])
               [] av[1] = "M" -> DeserializerEnum_deserialize(T, av[2], path)
               [] OTHER -> Deserializer_error("ExpectedEnum", av, path))
      [] k = "enum" /\ T[2][1] = "internal" ->
            and_then(Deserializer_deserialize_any(av, path),
                     LAMBDA c : ContentDeserializer_deserialize(T, c))
      [] k = "enum" /\ T[2][1] = "untagged" ->
            and_then(Deserializer_deserialize_any(av, path),
                     LAMBDA c : Content_untagged(T, c, 1))
      [] k = "enum" /\ T[2][1] = "adjacent" /\ av[1] # "L" ->
            IF av[1] = "M" THEN visit_adjacent(T, av[2], Drain(av[2]), path, <<"start">>)
            ELSE Deserializer_error("ExpectedMap", av, path)

\* de/mod.rs
from_attribute_value(T, av) == Deserializer_deserialize(T, av, Root)

from_item(T, it) == from_attribute_value(T, AvM(it))

(***************************************************************************)
(* attribute_value.rs: the wire form of an AttributeValue, as its          *)
(* Serialize and Deserialize implementations exchange it with a            *)
(* self-describing format.  A wire value is <<"String", text>>,            *)
(* <<"Bool", b>>, <<"Array", values>> or <<"Object", entries>>, an entry   *)
(* being <<key text, value>>.                                              *)
(***************************************************************************)
\* base64::alphabet::STANDARD
BASE64_ALPHABET ==
    << "A", "B", "C", "D", "E", "F", "G", "H", "I", "J", "K", "L", "M", "N", "O", "P",
       "Q", "R", "S", "T", "U", "V", "W", "X", "Y", "Z", "a", "b", "c", "d", "e", "f",
       "g", "h", "i", "j", "k", "l", "m", "n", "o", "p", "q", "r", "s", "t", "u", "v",
       "w", "x", "y", "z", "0", "1", "2", "3", "4", "5", "6", "7", "8", "9", "+", "/" >>

Symbol(sextet) == BASE64_ALPHABET[sextet + 1]
IsSymbol(c) == \E i \in 1..Len(BASE64_ALPHABET) : BASE64_ALPHABET[i] = c
Sextet(c) == (CHOOSE i \in 1..Len(BASE64_ALPHABET) : BASE64_ALPHABET[i] = c) - 1

\* mutant: the last group is written without its padding
RECURSIVE BASE64_ENGINE_encode_unpadded(_)
BASE64_ENGINE_encode_unpadded(bytes) ==
    CASE Len(bytes) = 0 -> <<>>
      [] Len(bytes) = 1 ->
            <<Symbol(bytes[1] \div 4), Symbol((bytes[1] % 4) * 16)>>
      [] Len(bytes) = 2 ->
            <<Symbol(bytes[1] \div 4), Symbol((bytes[1] % 4) * 16 + bytes[2] \div 16),
              Symbol((bytes[2] % 16) * 4)>>
      [] OTHER ->
            <<Symbol(bytes[1] \div 4), Symbol((bytes[1] % 4) * 16 + bytes[2] \div 16),
              Symbol((bytes[2] % 16) * 4 + bytes[3] \div 64), Symbol(bytes[3] % 64)>>
                \o BASE64_ENGINE_encode_unpadded(SubSeq(bytes, 4, Len(bytes)))

\* BASE64_ENGINE.encode: general_purpose::STANDARD
RECURSIVE BASE64_ENGINE_encode(_)
BASE64_ENGINE_encode(bytes) ==
    CASE Len(bytes) = 0 -> <<>>
      [] Len(bytes) = 1 ->
            <<Symbol(bytes[1] \div 4), Symbol((bytes[1] % 4) * 16), "=", "=">>
      [] Len(bytes) = 2 ->
            <<Symbol(bytes[1] \div 4), Symbol((bytes[1] % 4) * 16 + bytes[2] \div 16),
              Symbol((bytes[2] % 16) * 4), "=">>
      [] OTHER ->
            <<Symbol(bytes[1] \div 4), Symbol((bytes[1] % 4) * 16 + bytes[2] \div 16),
              Symbol((bytes[2] % 16) * 4 + bytes[3] \div 64), Symbol(bytes[3] % 64)>>
                \o BASE64_ENGINE_encode(SubSeq(bytes, 4, Len(bytes)))

DecodeError == Custom("Failed to decode base64")

\* BASE64_ENGINE.decode: groups of four symbols; padding is required, only in the
\* last group, and the bits it leaves unused must be zero
RECURSIVE BASE64_ENGINE_decode(_)
BASE64_ENGINE_decode(str) ==
    IF str = <<>> THEN Ok(<<>>)
    ELSE IF Len(str) < 4 THEN DecodeError
    ELSE
        LET q == SubSeq(str, 1, 4)
            rest == SubSeq(str, 5, Len(str))
            s(i) == Sextet(q[i])
            three == <<s(1) * 4 + s(2) \div 16, (s(2) % 16) * 16 + s(3) \div 4,
                       (s(3) % 4) * 64 + s(4)>>
        IN  CASE \A i \in 1..4 : IsSymbol(q[i]) ->
                    LET more == BASE64_ENGINE_decode(rest)
                    IN  IF IsOk(more) THEN Ok(three \o more[2]) ELSE more
              [] rest = <<>> /\ IsSymbol(q[1]) /\ IsSymbol(q[2]) /\ IsSymbol(q[3])
                    /\ q[4] = "=" ->
                    IF s(3) % 4 = 0
                    THEN Ok(<<s(1) * 4 + s(2) \div 16, (s(2) % 16) * 16 + s(3) \div 4>>)
                    ELSE DecodeError
              [] rest = <<>> /\ IsSymbol(q[1]) /\ IsSymbol(q[2]) /\ q[3] = "="
                    /\ q[4] = "=" ->
                    IF s(2) % 16 = 0 THEN Ok(<<s(1) * 4 + s(2) \div 16>>) ELSE DecodeError
              [] OTHER -> DecodeError

WString(text) == <<"String", text>>
WBool(b) == <<"Bool", b>>
WArray(values) == <<"Array", values>>
WObject(entries) == <<"Object", entries>>

\* serialize_map(Some(1)), serialize_entry(key, value), end
WSingle(key, value) == WObject(<< <<key, value>> >>)

KEY_N == <<"N">>
KEY_S == <<"S">>
KEY_BOOL == <<"B", "O", "O", "L">>
KEY_B == <<"B">>
KEY_NULL == <<"N", "U", "L", "L">>
KEY_M == <<"M">>
KEY_L == <<"L">>
KEY_SS == <<"S", "S">>
KEY_NS == <<"N", "S">>
KEY_BS == <<"B", "S">>

\* impl Serialize for AttributeValue
RECURSIVE AttributeValue_serialize(_)
AttributeValue_serialize(av) ==
    LET inner == av[2] IN
    CASE av[1] = "N" -> WSingle(KEY_N, WString(inner))
      [] av[1] = "S" -> WSingle(KEY_S, WString(inner))
      [] av[1] = "Bool" -> WSingle(KEY_BOOL, WBool(inner))
      [] av[1] = "B" -> WSingle(KEY_B, WString(BASE64_ENGINE_encode(inner)))
      [] av[1] = "Null" -> WSingle(KEY_NULL, WBool(inner))
      [] av[1] = "M" ->
            WSingle(KEY_M,
                    WObject([i \in 1..Len(Drain(inner)) |->
                                <<Drain(inner)[i],
                                  AttributeValue_serialize(inner[Drain(inner)[i]])>>]))
      [] av[1] = "L" ->
            WSingle(KEY_L,
                    WArray([i \in 1..Len(inner) |-> AttributeValue_serialize(inner[i])]))
      [] av[1] = "Ss" -> WSingle(KEY_SS, WArray([i \in 1..Len(inner) |-> WString(inner[i])]))
      [] av[1] = "Ns" -> WSingle(KEY_NS, WArray([i \in 1..Len(inner) |-> WString(inner[i])]))
      [] av[1] = "Bs" ->
            WSingle(KEY_BS,
                    WArray([i \in 1..Len(inner) |-> WString(BASE64_ENGINE_encode(inner[i]))]))

\* next_value::<String>(), ::<bool>(), ::<Vec<String>>()
next_value_String(w) == IF w[1] = "String" THEN Ok(w[2]) ELSE InvalidType
next_value_bool(w) == IF w[1] = "Bool" THEN Ok(w[2]) ELSE InvalidType
next_value_Strings(w) ==
    IF w[1] = "Array" /\ \A i \in 1..Len(w[2]) : w[2][i][1] = "String"
    THEN Ok([i \in 1..Len(w[2]) |-> w[2][i][2]])
    ELSE InvalidType

\* the BS arm: every string is decoded, the first failure ends the loop
RECURSIVE byte_entries(_, _)
byte_entries(strings, acc) ==
    IF strings = <<>> THEN Ok(acc)
    ELSE LET bytes == BASE64_ENGINE_decode(Head(strings))
         IN  IF IsOk(bytes) THEN byte_entries(Tail(strings), Append(acc, bytes[2]))
             ELSE bytes

\* wrap an Ok value with a variant constructor
Wrap(tag, r) == IF IsOk(r) THEN Ok(<<tag, r[2]>>) ELSE r

\* impl Deserialize for AttributeValue: Visitor::visit_map
RECURSIVE AttributeValue_deserialize(_)
RECURSIVE next_value_Vec(_, _)
RECURSIVE next_value_HashMap(_, _)

\* next_value::<Vec<AttributeValue>>()
next_value_Vec(values, acc) ==
    IF values = <<>> THEN Ok(acc)
    ELSE LET v == AttributeValue_deserialize(Head(values))
         IN  IF IsOk(v) THEN next_value_Vec(Tail(values), Append(acc, v[2])) ELSE v

\* next_value::<HashMap<String, AttributeValue>>()
next_value_HashMap(entries, acc) ==
    IF entries = <<>> THEN Ok(acc)
    ELSE LET v == AttributeValue_deserialize(Head(entries)[2])
         IN  IF IsOk(v)
             THEN next_value_HashMap(Tail(entries), MapInsert(acc, Head(entries)[1], v[2]))
             ELSE v

\* a visitor that stops after the first entry
AttributeValue_deserialize_first_entry(w) ==
    IF w[1] # "Object" THEN InvalidType
    ELSE IF w[2] = <<>>
    THEN Custom("Expected exactly one key in the object, found none")
    ELSE
        LET first_key == w[2][1][1]
            value == w[2][1][2]
            attribute_value ==
                CASE first_key = KEY_N -> Wrap("N", next_value_String(value))
                  [] first_key = KEY_S -> Wrap("S", next_value_String(value))
                  [] first_key = KEY_BOOL -> Wrap("Bool", next_value_bool(value))
                  [] first_key = KEY_B ->
                        LET string == next_value_String(value)
                        IN  IF IsOk(string) THEN Wrap("B", BASE64_ENGINE_decode(string[2]))
                            ELSE string
                  [] first_key = KEY_NULL -> Wrap("Null", next_value_bool(value))
                  [] first_key = KEY_M ->
                        IF value[1] = "Object"
                        THEN Wrap("M", next_value_HashMap(value[2], EmptyMap))
                        ELSE InvalidType
                  [] first_key = KEY_L ->
                        IF value[1] = "Array" THEN Wrap("L", next_value_Vec(value[2], <<>>))
                        ELSE InvalidType
                  [] first_key = KEY_SS -> Wrap("Ss", next_value_Strings(value))
                  [] first_key = KEY_NS -> Wrap("Ns", next_value_Strings(value))
                  [] first_key = KEY_BS ->
                        LET strings == next_value_Strings(value)
                        IN  IF IsOk(strings) THEN Wrap("Bs", byte_entries(strings[2], <<>>))
                            ELSE strings
                  [] OTHER -> Custom("The key is not a known DynamoDB prefix")
        IN  IF ~IsOk(attribute_value) THEN attribute_value
            ELSE attribute_value

AttributeValue_deserialize(w) ==
    IF w[1] # "Object" THEN InvalidType
    ELSE IF w[2] = <<>>
    THEN Custom("Expected exactly one key in the object, found none")
    ELSE
        LET first_key == w[2][1][1]
            value == w[2][1][2]
            attribute_value ==
                CASE first_key = KEY_N -> Wrap("N", next_value_String(value))
                  [] first_key = KEY_S -> Wrap("S", next_value_String(value))
                  [] first_key = KEY_BOOL -> Wrap("Bool", next_value_bool(value))
                  [] first_key = KEY_B ->
                        LET string == next_value_String(value)
                        IN  IF IsOk(string) THEN Wrap("B", BASE64_ENGINE_decode(string[2]))
                            ELSE string
                  [] first_key = KEY_NULL -> Wrap("Null", next_value_bool(value))
                  [] first_key = KEY_M ->
                        IF value[1] = "Object"
                        THEN Wrap("M", next_value_HashMap(value[2], EmptyMap))
                        ELSE InvalidType
                  [] first_key = KEY_L ->
                        IF value[1] = "Array" THEN Wrap("L", next_value_Vec(value[2], <<>>))
                        ELSE InvalidType
                  [] first_key = KEY_SS -> Wrap("Ss", next_value_Strings(value))
                  [] first_key = KEY_NS -> Wrap("Ns", next_value_Strings(value))
                  [] first_key = KEY_BS ->
                        LET strings == next_value_Strings(value)
                        IN  IF IsOk(strings) THEN Wrap("Bs", byte_entries(strings[2], <<>>))
                            ELSE strings
                  [] OTHER -> Custom("The key is not a known DynamoDB prefix")
        IN  IF ~IsOk(attribute_value) THEN attribute_value
            ELSE IF Len(w[2]) > 1
            THEN Custom("Expected exactly one key in the object, found multiple keys")
            ELSE attribute_value

(***************************************************************************)
(* Sample typed values                                                     *)
(***************************************************************************)
Nat1(d) == IntVal(FALSE, <<d>>)
U8(d) == <<TInt("u8"), Nat1(d)>>
Str(text) == <<TString, text>>

\* keys offered to a SerializerMap: accepted ones, one that is refused and one whose
\* shape MapKeySerializer does not handle
MapKeys ==
    { Str(<<"a">>), Str(<<"b">>), U8(1), <<TBool, TRUE>>, <<TSeq(TInt("u8")), <<Nat1(1)>> >> }

\* values offered to a SerializerMap: two that serialize and one that does not
MapValues ==
    { U8(1), Str(<<"x">>), <<TInt("u128"), Nat1(5)>> }

\* the texts the sample inputs use
USER == <<"u", "s", "e", "r">>
AGE == <<"a", "g", "e">>
ADDRESSES == <<"a", "d", "d", "r", "e", "s", "s", "e", "s">>
ZIP == <<"z", "i", "p">>
NOTANUMBER == <<"n", "o", "t", "a", "n", "u", "m", "b", "e", "r">>

USER_AGE == <<"u", "s", "e", "r", ".", "a", "g", "e">>
USER_ADDRESSES_2_ZIP == <<"u", "s", "e", "r", ".", "a", "d", "d", "r", "e", "s", "s", "e", "s", "[", "2", "]", ".", "z", "i", "p">>

(***************************************************************************)
(* SpecSerializerMap: any sequence of calls on one SerializerMap           *)
(***************************************************************************)
Idle == pc = "idle" /\ subject = <<>> /\ result = <<>>

Call(op, key, value, res) ==
    [op |-> op, key |-> key, value |-> value, res |-> res,
     pending |-> next_key # None, before |-> item]

InitSerializerMap ==
    /\ pc = "open"
    /\ subject = <<>>
    /\ result = <<>>
    /\ item = SerializerMap_new.item
    /\ next_key = SerializerMap_new.next_key
    /\ ret = [op |-> "new", key |-> None, value |-> None, res |-> Ok(<<>>),
              pending |-> FALSE, before |-> EmptyMap]
    /\ ncalls = 0
    /\ drain = "ascending"

Self == [item |-> item, next_key |-> next_key]

\* the effect of a &mut self call that returned r
Returns(op, key, value, r) ==
    /\ ret' = Call(op, key, value, r.res)
    /\ ncalls' = ncalls + 1
    /\ item' = r.sm.item
    /\ next_key' = r.sm.next_key
    /\ pc' = IF IsPanic(r.res) THEN "panicked" ELSE "open"
    /\ UNCHANGED <<subject, result, drain>>

serialize_key ==
    /\ pc = "open" /\ ncalls < MaxCalls
    /\ \E key \in MapKeys :
          Returns("serialize_key", Some(key), None, SerializerMap_serialize_key(Self, key))

serialize_value ==
    /\ pc = "open" /\ ncalls < MaxCalls
    /\ \E value \in MapValues :
          Returns("serialize_value", None, Some(value),
                  SerializerMap_serialize_value(Self, value))

serialize_entry ==
    /\ pc = "open" /\ ncalls < MaxCalls
    /\ \E key \in MapKeys, value \in MapValues :
          Returns("serialize_entry", Some(key), Some(value),
                  SerializerMap_serialize_entry(Self, key, value))

end ==
    /\ pc = "open"
    /\ pc' = "ended"
    /\ result' = SerializerMap_end(Self)
    /\ ret' = Call("end", None, None, SerializerMap_end(Self))
    /\ UNCHANGED <<subject, item, next_key, ncalls, drain>>

NextSerializerMap ==
    \/ serialize_key
    \/ serialize_value
    \/ serialize_entry
    \/ end

SpecSerializerMap == InitSerializerMap /\ [][NextSerializerMap]_vars

\* C6: a serialize_key call made while an accepted key still waits for its value
\* returns the SerializeMapKeyCalledTwice error, whatever calls came before it and
\* whatever key it is given.
C6_KeyCalledTwice ==
    (ret.op = "serialize_key" /\ ret.pending)
        => ret.res = Err(Error_into("SerializeMapKeyCalledTwice", ""))

C6_Witness ==
    /\ ret.op = "serialize_key" /\ ret.pending
    /\ ncalls = MaxCalls /\ item # EmptyMap

\* C7: a serialize_value call made when no key is pending returns the
\* SerializeMapValueBeforeKey error and leaves the map as it was.
C7_ValueBeforeKey ==
    (ret.op = "serialize_value" /\ ~ret.pending)
        => /\ ret.res = Err(Error_into("SerializeMapValueBeforeKey", ""))
           /\ item = ret.before
           /\ pc = "open"

C7_Witness ==
    /\ ret.op = "serialize_value" /\ ~ret.pending
    /\ item # EmptyMap

TWO == <<"t", "w", "o">>
THREE == <<"t", "h", "r", "e", "e">>
TYPE == <<"t", "y", "p", "e">>
VALUE == <<"v", "a", "l", "u", "e">>
ID == <<"i", "d">>
EMAIL == <<"e", "m", "a", "i", "l">>
TO == <<"t", "o">>
BODY == <<"b", "o", "d", "y">>
SUBJECT == <<"s", "u", "b", "j", "e", "c", "t">>
INFO == <<"I", "N", "F", "O", "!">>

(***************************************************************************)
(* The types of tests.rs and ser/tests.rs, and sample values of them       *)
(***************************************************************************)
Item1(key, av) == MapInsert(EmptyMap, key, av)

ONE == <<"o", "n", "e">>

Color ==
    TEnum(<<"external">>, << <<<<"R">>, "unit", <<>> >>, <<<<"G">>, "newtype", TInt("u8")>>,
                             <<<<"T">>, "tuple", <<TInt("u8")>> >>,
                             <<<<"P">>, "struct", <<Field(ZIP, TInt("u8"))>> >> >>)

Meters == TNewtypeStruct(<<<<"M", "e", "t", "e", "r", "s">>, "Meters">>, TInt("i64"))

Marker == TUnitStruct("Marker")
Pair == TTupleStruct("Pair", <<TInt("u8"), TString>>)
Address == TStruct("Address", <<Field(ZIP, TInt("u8"))>>)
StringSet == TNewtypeStruct(NEWTYPE_SYMBOL, TSeq(TString))
NumberSet == TNewtypeStruct(NEWTYPE_SYMBOL, TSeq(TInt("u8")))
BinarySet == TNewtypeStruct(NEWTYPE_SYMBOL, TSeq(TBytes))

OneTwo ==
    << <<ONE, "struct", <<Field(ONE, TInt("u8"))>> >>,
       <<TWO, "struct", <<Field(TWO, TInt("u8"))>> >> >>

InternallyTagged == TEnum(<<"internal", TYPE>>, OneTwo)
AdjacentlyTagged == TEnum(<<"adjacent", TYPE, VALUE>>, OneTwo)
Simple == TEnum(<<"untagged">>, OneTwo)
Overlapping ==
    TEnum(<<"untagged">>,
          << <<TWO, "struct", <<Field(ONE, TInt("u8")), Field(TWO, TInt("u8"))>> >>,
             <<THREE, "struct", <<Field(ONE, TInt("u8")), Field(THREE, TInt("u8"))>> >> >>)

Email == TStruct("Email", <<Field(TO, TString), Field(SUBJECT, TString), Field(BODY, TString)>>)
Flattened == TStruct("Subject", <<Field(ID, TInt("u64")), Flatten(EMAIL, TOption(Email))>>)

\* values whose item is a map: the subjects of the round-trip tests and others
MaplikeSamples ==
    { <<InternallyTagged, <<ONE, <<Nat1(1)>> >> >>, <<InternallyTagged, <<TWO, <<Nat1(2)>> >> >>,
      <<AdjacentlyTagged, <<ONE, <<Nat1(1)>> >> >>, <<AdjacentlyTagged, <<TWO, <<Nat1(2)>> >> >>,
      <<Simple, <<ONE, <<Nat1(1)>> >> >>, <<Simple, <<TWO, <<Nat1(2)>> >> >>,
      <<Overlapping, <<TWO, <<Nat1(1), Nat1(2)>> >> >>,
      <<Overlapping, <<THREE, <<Nat1(1), Nat1(3)>> >> >>,
      <<Flattened, <<Nat1(1), None>> >>,
      <<Flattened, <<Nat1(1), Some(<<TO, INFO, BODY>>)>> >>,
      <<Address, <<Nat1(9)>> >>,
      <<Color, <<<<"G">>, Nat1(1)>> >>, <<Color, <<<<"T">>, <<Nat1(1)>> >> >>,
      <<Color, <<<<"P">>, <<Nat1(1)>> >> >>,
      <<TMap(TString, TInt("u8")), MapInsert(Item1(<<"a">>, Nat1(1)), <<"b">>, Nat1(2))>>,
      <<TMap(TInt("i32"), TString),
        MapInsert(Item1(IntVal(TRUE, <<1>>), ONE), IntVal(FALSE, <<2>>), TWO)>>,
      <<TMap(TChar, TOption(TInt("u8"))), MapInsert(Item1("a", None), "b", Some(Nat1(1)))>>,
      <<TMap(TInt("i128"), TString), Item1(Nat1(5), VALUE)>> }

\* values whose attribute value is not a map
OtherSamples ==
    { <<TInt("u8"), Nat1(7)>>, <<TInt("i64"), IntVal(TRUE, MinMag("i64"))>>,
      <<TInt("u64"), IntVal(FALSE, MaxMag("u64"))>>, <<TInt("u128"), Nat1(5)>>,
      <<TString, NOTANUMBER>>, <<TBool, TRUE>>, <<TChar, "c">>, <<TUnit, <<>> >>,
      <<Marker, <<>> >>, <<Meters, IntVal(TRUE, <<5>>)>>,
      <<Pair, <<Nat1(1), ONE>> >>, <<TTuple(<<TBool, TUnit>>), <<FALSE, <<>> >> >>,
      <<Color, <<<<"R">>, <<>> >> >>,
      <<TOption(TInt("u8")), None>>, <<TOption(TInt("u8")), Some(Nat1(1))>>,
      <<TOption(TUnit), None>>, <<TOption(TUnit), Some(<<>>)>>,
      <<TOption(Marker), Some(<<>>)>>,
      <<TOption(TOption(TInt("u8"))), Some(None)>>,
      <<TOption(TOption(TInt("u8"))), Some(Some(Nat1(1)))>>,
      <<TSeq(TInt("u8")), <<>> >>, <<TSeq(TInt("u8")), <<Nat1(1), Nat1(2)>> >>,
      <<TSeq(TOption(TUnit)), <<Some(<<>>), None>> >>,
      <<StringSet, <<ONE, TWO>> >>, <<NumberSet, <<Nat1(1), Nat1(2)>> >>,
      <<StringSet, <<>> >> }

\* values that hold raw binary
BinarySamples ==
    { <<TBytes, <<116, 101, 115, 116, 0>> >>, <<BinarySet, << <<1>>, <<2, 3>> >> >> }

TypedSamples == MaplikeSamples \cup OtherSamples \cup BinarySamples

F == <<"f">>
G == <<"g">>

\* struct Rec { f: X }, HashMap<String, X>, struct Rec2 { f: Option<X>, g: Vec<X> }
InField(s) == <<TStruct("Rec", <<Field(F, s[1])>>), <<s[2]>> >>
InMap(s) == <<TMap(TString, s[1]), Item1(<<"k">>, s[2])>>
InOptionAndSeq(s) ==
    <<TStruct("Rec2", <<Field(F, TOption(s[1])), Field(G, TSeq(s[1]))>>),
      <<Some(s[2]), <<s[2], s[2]>> >> >>

(***************************************************************************)
(* SpecDe: one from_item or from_attribute_value call on a sample input.   *)
(* A subject is a target type and an attribute value: a leaf type and a    *)
(* leaf value, placed at the root, in the field user.age, or in the field  *)
(* zip of element 2 of the list user.addresses.                            *)
(***************************************************************************)
DeLeafSamples ==
    { <<TInt("u8"), Nat1(7)>>,
      <<TInt("i64"), IntVal(TRUE, <<4, 2>>)>>,
      <<TString, <<"x">> >>,
      <<TBool, TRUE>>,
      <<TChar, "c">>,
      <<TUnit, <<>> >>,
      <<TBytes, <<1>> >>,
      <<TOption(TInt("u8")), Some(Nat1(1))>>,
      <<TSeq(TInt("u8")), <<Nat1(1)>> >>,
      <<TSeq(TString), << <<"x">> >> >> }

DeLeaves ==
    { AvS(NOTANUMBER), AvN(<<"7">>), AvN(<<"3", "0", "0">>), AvN(<<"1", "x">>),
      AvBool(TRUE), AvNull(TRUE), AvNull(FALSE), AvB(<<1>>), AvM(EmptyMap),
      AvL(<<AvN(<<"1">>), AvS(<<"x">>)>>), AvSs(<< <<"x">> >>),
      AvNs(<< <<"1">>, <<"x">> >>), AvBs(<< <<1>> >>) }

\* struct Outer { user: User }  struct User { age: T }
UserAge(T) == TStruct("Outer", <<Field(USER, TStruct("User", <<Field(AGE, T)>>))>>)

UserAgeValue(av) == AvM(Item1(USER, AvM(Item1(AGE, av))))

\* struct Outer { user: User }  struct User { addresses: Vec<Address> }
\* struct Address { zip: T }
UserAddresses(T) ==
    TStruct("Outer",
            <<Field(USER,
                    TStruct("User",
                            <<Field(ADDRESSES,
                                    TSeq(TStruct("Address", <<Field(ZIP, T)>>)))>>))>>)

\* a list of three addresses: two that deserialize and then the one under study
UserAddressesValue(good, av) ==
    AvM(Item1(USER,
              AvM(Item1(ADDRESSES,
                        AvL(<<AvM(Item1(ZIP, good)), AvM(Item1(ZIP, good)),
                              AvM(Item1(ZIP, av))>>)))))

Subject(place, T, av) == [place |-> place, T |-> T, av |-> av]

DeSubjects ==
    UNION { { Subject("root", leaf[1], av),
              Subject("field", UserAge(leaf[1]), UserAgeValue(av)),
              Subject("element", UserAddresses(leaf[1]),
                      UserAddressesValue(to_attribute_value(leaf[1], leaf[2])[2], av)) }
            : <<leaf, av>> \in DeLeafSamples \X DeLeaves }

InitDe ==
    /\ pc = "input"
    /\ subject \in DeSubjects
    /\ result = <<>>
    /\ drain \in {"ascending", "descending"}
    /\ item = EmptyMap
    /\ next_key = None
    /\ ret = <<>>
    /\ ncalls = 0

de_from_attribute_value ==
    /\ pc = "input"
    /\ pc' = "from_attribute_value"
    /\ result' = from_attribute_value(subject.T, subject.av)
    /\ UNCHANGED <<subject, item, next_key, ret, ncalls, drain>>

de_from_item ==
    /\ pc = "input"
    /\ subject.av[1] = "M"
    /\ pc' = "from_item"
    /\ result' = from_item(subject.T, subject.av[2])
    /\ UNCHANGED <<subject, item, next_key, ret, ncalls, drain>>

NextDe ==
    \/ de_from_attribute_value
    \/ de_from_item

SpecDe == InitDe /\ [][NextDe]_vars

C8_Subject == Subject("field", UserAge(TInt("u8")), UserAgeValue(AvS(NOTANUMBER)))

\* C8: deserializing Map{user: Map{age: String("notanumber")}} into {user: {age: u8}}
\* fails with the ExpectedNum error, whose path is exactly user.age and whose input
\* is the offending String.
C8_ExpectedNumAtUserAge ==
    (pc # "input" /\ subject = C8_Subject)
        => result = Err(Error_new("ExpectedNum", "", USER_AGE, Some(AvS(NOTANUMBER))))

C8_Witness ==
    /\ pc = "from_item" /\ subject = C8_Subject /\ drain = "descending"
    /\ IsErr(result) /\ result[2].path = USER_AGE

\* C8 as stated: the failure is one of the parse-failure kinds, at path user.age
C8_ParseFailureAtUserAge ==
    (pc # "input" /\ subject = C8_Subject)
        => /\ IsErr(result)
           /\ result[2].kind \in {"FailedToParseInt", "FailedToParseFloat"}
           /\ result[2].path = USER_AGE

C9_Subject ==
    Subject("element", UserAddresses(TInt("u8")),
            UserAddressesValue(AvN(<<"7">>), AvS(NOTANUMBER)))

\* C9 as stated: a failure in field zip of element 2 of the list in field addresses
\* of field user renders its path as exactly user.addresses[2].zip
C9_RendersIndexedPath ==
    (pc # "input" /\ subject = C9_Subject)
        => IsErr(result) /\ result[2].path = USER_ADDRESSES_2_ZIP

\* C10 as stated: every error for a failure below the root carries a non-empty path.
\* In a subject placed in a field or in a list element every entry above the leaf is
\* well formed, so every failure lies at the leaf or below it.
C10_PathBelowRoot ==
    (pc # "input" /\ subject.place \in {"field", "element"} /\ IsErr(result))
        => result[2].path # <<>>

(***************************************************************************)
(* SpecKey: to_item of a map with keys of one type, then from_item of the  *)
(* item into the same map type.                                            *)
(***************************************************************************)
IntKeys(w) ==
    { IntVal(FALSE, <<0>>), IntVal(FALSE, <<5>>), IntVal(FALSE, MaxMag(w)) }
        \cup (IF IsSigned(w) THEN { IntVal(TRUE, <<1>>), IntVal(TRUE, MinMag(w)) } ELSE {})

\* the maps with one or two of the keys, every value "one"
MapsOver(keys) ==
    { [k \in ks |-> ONE] : ks \in { x \in SUBSET keys : Cardinality(x) \in {1, 2} } }

\* key types and keys of the shapes MapKeySerializer turns into a string
OtherAllowedKeys ==
    { <<TString, <<"a">> >>, <<TString, <<>> >>, <<TChar, "c">>,
      <<Color, <<<<"R">>, <<>> >> >>, <<Meters, IntVal(TRUE, <<5>>)>> }

\* key types and keys of every other shape
RefusedKeys ==
    { <<TBool, TRUE>>, <<TOption(TInt("u8")), None>>, <<TOption(TInt("u8")), Some(Nat1(1))>>,
      <<TUnit, <<>> >>, <<TUnitStruct("Marker"), <<>> >>, <<TBytes, <<1>> >>,
      <<TSeq(TInt("u8")), <<Nat1(1)>> >>, <<TTuple(<<TInt("u8"), TString>>), <<Nat1(1), <<"a">> >> >>,
      <<TTupleStruct("Pair", <<TInt("u8")>>), <<Nat1(1)>> >>,
      <<TMap(TString, TInt("u8")), Item1(<<"a">>, Nat1(1))>>,
      <<TStruct("Address", <<Field(ZIP, TInt("u8"))>>), <<Nat1(1)>> >>,
      <<Color, <<<<"G">>, Nat1(1)>> >>, <<Color, <<<<"T">>, <<Nat1(1)>> >> >>,
      <<Color, <<<<"P">>, <<Nat1(1)>> >> >>,
      <<TNewtypeStruct(<<<<"F", "l", "a", "g">>, "Flag">>, TBool), FALSE>>,
      <<TNewtypeStruct(<<<<"I", "d", "s">>, "Ids">>, TSeq(TInt("u8"))), <<Nat1(1)>> >> }

\* a subject: the shape of the key, the map type, the map
Keyed(shape, K, m) == <<shape, TMap(K, TString), m>>
ShapeOf(s) == s[1]
TypeOf(s) == s[2]
ValueOf(s) == s[3]

KeySubjects ==
    UNION { { Keyed("integer", TInt(w), m) : m \in MapsOver(IntKeys(w)) } : w \in IntWidths }
        \cup { Keyed("string", kv[1], Item1(kv[2], ONE)) : kv \in OtherAllowedKeys }
        \cup { Keyed("other", kv[1], Item1(kv[2], ONE)) : kv \in RefusedKeys }

InitKey ==
    /\ pc = "input"
    /\ subject \in KeySubjects
    /\ result = <<>>
    /\ drain \in {"ascending", "descending"}
    /\ item = EmptyMap
    /\ next_key = None
    /\ ret = <<>>
    /\ ncalls = 0

key_to_item ==
    /\ pc = "input"
    /\ pc' = "to_item"
    /\ result' = to_item(TypeOf(subject), ValueOf(subject))
    /\ item' = IF IsOk(result') THEN result'[2] ELSE item
    /\ UNCHANGED <<subject, next_key, ret, ncalls, drain>>

key_from_item ==
    /\ pc = "to_item"
    /\ IsOk(result)
    /\ pc' = "from_item"
    /\ result' = from_item(TypeOf(subject), item)
    /\ UNCHANGED <<subject, item, next_key, ret, ncalls, drain>>

NextKey ==
    \/ key_to_item
    \/ key_from_item

SpecKey == InitKey /\ [][NextKey]_vars

\* C4: a map with integer keys of any width, i8 through u128, serializes to an item
\* whose keys are the decimal text of each integer, and from_item of that item into
\* the same map type returns the original map.
C4_IntegerKeysRoundTrip ==
    ShapeOf(subject) = "integer" =>
        /\ pc = "to_item" =>
                /\ IsOk(result)
                /\ DOMAIN item = { to_string(k) : k \in DOMAIN ValueOf(subject) }
                /\ \A k \in DOMAIN ValueOf(subject) : item[to_string(k)] = AvS(ValueOf(subject)[k])
        /\ pc = "from_item" => result = Ok(ValueOf(subject))

C4_Witness ==
    /\ pc = "from_item" /\ TypeOf(subject)[2] = TInt("i128")
    /\ DOMAIN ValueOf(subject) = { IntVal(TRUE, MinMag("i128")), IntVal(FALSE, MaxMag("i128")) }
    /\ result = Ok(ValueOf(subject))
    /\ Cardinality(DOMAIN item) = 2

\* C5 as stated: a map whose key has any other shape is refused with KeyMustBeAString;
\* the call never panics and produces no item
C5_OtherKeysRefused ==
    (pc = "to_item" /\ ShapeOf(subject) = "other") => result = KeyMustBeAString

(***************************************************************************)
(* SpecWire: an AttributeValue is serialized to its wire form, and the     *)
(* wire form is deserialized.                                              *)
(***************************************************************************)
MaxByte == 255

WireBytes ==
    { <<>>, <<0>>, <<MaxByte>>, <<1, 2>>, <<MaxByte, MaxByte>>, <<77, 97, 110>>,
      <<0, 16, 131, 16>>, <<MaxByte, 254, 253, 252, 251>> }

WireScalars ==
    { AvN(<<"7">>), AvN(<<"-", "1", ".", "5">>), AvS(<<>>), AvS(<<"N">>), AvS(NOTANUMBER),
      AvBool(TRUE), AvBool(FALSE), AvNull(TRUE), AvNull(FALSE),
      AvSs(<<>>), AvSs(<< <<"a">>, <<"a">> >>), AvNs(<< <<"1">>, <<"2">> >>),
      AvBs(<<>>), AvBs(<< <<1>>, <<1, 2, 3>>, <<>> >>) }
        \cup { AvB(b) : b \in WireBytes }

\* the lists and the maps over a set of values, up to two elements or entries
ListsOver(values) ==
    { AvL(<<>>) } \cup { AvL(<<v>>) : v \in values }
        \cup { AvL(<<v, w>>) : <<v, w>> \in values \X values }

WireMapsOver(values) ==
    { AvM(EmptyMap) } \cup { AvM(Item1(<<"k">>, v)) : v \in values }
        \cup { AvM(MapInsert(Item1(<<"M">>, v), <<"k">>, w)) : <<v, w>> \in values \X values }

WireNested ==
    { AvL(<<>>), AvM(EmptyMap), AvL(<<AvB(<<1>>)>>), AvM(Item1(<<"B">>, AvB(<<1, 2>>))),
      AvL(<<AvL(<<AvNull(TRUE)>>)>>), AvM(Item1(<<"L">>, AvL(<<AvS(<<"x">>)>>))) }

WireValues ==
    WireScalars \cup ListsOver(WireScalars) \cup WireMapsOver(WireNested)
        \cup ListsOver(WireNested) \cup WireMapsOver({AvB(<<0>>), AvBs(<< <<MaxByte>> >>)})

InitWire ==
    /\ pc = "input"
    /\ subject \in WireValues
    /\ result = <<>>
    /\ drain \in {"ascending", "descending"}
    /\ item = EmptyMap
    /\ next_key = None
    /\ ret = <<>>
    /\ ncalls = 0

wire_encode ==
    /\ pc = "input"
    /\ pc' = "encoded"
    /\ result' = Ok(AttributeValue_serialize(subject))
    /\ UNCHANGED <<subject, item, next_key, ret, ncalls, drain>>

wire_decode ==
    /\ pc = "encoded"
    /\ pc' = "decoded"
    /\ result' = AttributeValue_deserialize(result[2])
    /\ UNCHANGED <<subject, item, next_key, ret, ncalls, drain>>

NextWire ==
    \/ wire_encode
    \/ wire_decode

SpecWire == InitWire /\ [][NextWire]_vars

\* C2: for every AttributeValue v, of any of the ten variants and nested, deserializing
\* the wire form that serializing v produced succeeds and yields v.
C2_WireRoundTrip == pc = "decoded" => result = Ok(subject)

C2_Witness ==
    /\ pc = "decoded"
    /\ subject = AvM(MapInsert(Item1(<<"M">>, AvM(Item1(<<"B">>, AvB(<<1, 2>>)))), <<"k">>,
                               AvL(<<AvB(<<1>>)>>)))
    /\ result = Ok(subject)
    /\ drain = "descending"

(***************************************************************************)
(* SpecRoundTrip: tests.rs round_trip, to_item and then from_item into the *)
(* same type.                                                              *)
(***************************************************************************)
RoundTripSubjects ==
    MaplikeSamples
        \cup { InField(x) : x \in TypedSamples }
        \cup { InMap(x) : x \in TypedSamples }
        \cup { InOptionAndSeq(x) : x \in TypedSamples }

InitRoundTrip ==
    /\ pc = "input"
    /\ subject \in RoundTripSubjects
    /\ result = <<>>
    /\ drain \in {"ascending", "descending"}
    /\ item = EmptyMap
    /\ next_key = None
    /\ ret = <<>>
    /\ ncalls = 0

round_trip_to_item ==
    /\ pc = "input"
    /\ pc' = "to_item"
    /\ result' = to_item(subject[1], subject[2])
    /\ item' = IF IsOk(result') THEN result'[2] ELSE item
    /\ UNCHANGED <<subject, next_key, ret, ncalls, drain>>

round_trip_from_item ==
    /\ pc = "to_item"
    /\ IsOk(result)
    /\ pc' = "from_item"
    /\ result' = from_item(subject[1], item)
    /\ UNCHANGED <<subject, item, next_key, ret, ncalls, drain>>

NextRoundTrip ==
    \/ round_trip_to_item
    \/ round_trip_from_item

SpecRoundTrip == InitRoundTrip /\ [][NextRoundTrip]_vars

\* some Some(x) inside v wraps an x that serializes to Null(true)
RECURSIVE HasNullSome(_, _)
HasNullSome(T, v) ==
    LET k == Kind(T)
        any(Ts, vs) == \E i \in 1..Len(vs) : HasNullSome(Ts[i], vs[i])
        types(fields) == [i \in 1..Len(fields) |-> fields[i][2]]
    IN  CASE k = "option" ->
                /\ v # None
                /\ \/ Serializer_serialize(T[2], v[1]) = Ok(AvNull(TRUE))
                   \/ HasNullSome(T[2], v[1])
          [] k = "seq" -> \E i \in 1..Len(v) : HasNullSome(T[2], v[i])
          [] k = "tuple" -> any(T[2], v)
          [] k = "tuple_struct" -> any(T[3], v)
          [] k = "map" -> \E key \in DOMAIN v : HasNullSome(T[3], v[key])
          [] k = "struct" -> any(types(T[3]), v)
          [] k = "newtype_struct" -> HasNullSome(T[3], v)
          [] k = "enum" ->
                LET decl == VariantNamed(T, v[1])
                IN  (CASE decl[2] = "unit" -> FALSE
                       [] decl[2] = "newtype" -> HasNullSome(decl[3], v[2])
                       [] decl[2] = "tuple" -> any(decl[3], v[2])
                       [] decl[2] = "struct" -> any(types(decl[3]), v[2]))
          [] OTHER -> FALSE

JsonSubjects ==
    TypedSamples
        \cup { InField(x) : x \in TypedSamples }
        \cup { InMap(x) : x \in TypedSamples }
        \cup { InOptionAndSeq(x) : x \in TypedSamples }

InitJson ==
    /\ pc = "input"
    /\ subject \in JsonSubjects
    /\ result = <<>>
    /\ drain = "ascending"
    /\ item = EmptyMap
    /\ next_key = None
    /\ ret = <<>>
    /\ ncalls = 0

\* let direct_result = to_attribute_value(t1)
json_direct ==
    /\ pc = "input"
    /\ pc' = "direct"
    /\ result' = to_attribute_value(subject[1], subject[2])
    /\ UNCHANGED <<subject, item, next_key, ret, ncalls, drain>>

\* serde_json::to_value(t2)
json_to_value ==
    /\ pc = "direct"
    /\ IsOk(result)
    /\ pc' = "json"
    /\ ret' = serde_json_to_value(subject[1], subject[2])
    /\ UNCHANGED <<subject, result, item, next_key, ncalls, drain>>

\* let indirect_result = to_attribute_value(json)
json_indirect ==
    /\ pc = "json"
    /\ pc' = "indirect"
    /\ ret' = IF IsOk(ret) THEN to_attribute_value(TJson, ret[2]) ELSE ret
    /\ UNCHANGED <<subject, result, item, next_key, ncalls, drain>>

NextJson ==
    \/ json_direct
    \/ json_to_value
    \/ json_indirect

SpecJson == InitJson /\ [][NextJson]_vars

\* the key type is a 128-bit integer, or a newtype of one
RECURSIVE IsWideKey(_)
IsWideKey(K) ==
    CASE Kind(K) = "int" -> K[2] \in {"i128", "u128"}
      [] Kind(K) = "newtype_struct" -> IsWideKey(K[3])
      [] OTHER -> FALSE

\* v holds a byte buffer (what = "bytes"), a value of a set newtype (what = "set"),
\* or a map with an entry under a 128-bit integer key (what = "wide key")
RECURSIVE Contains(_, _, _)
Contains(what, T, v) ==
    LET k == Kind(T)
        any(Ts, vs) == \E i \in 1..Len(vs) : Contains(what, Ts[i], vs[i])
        types(fields) == [i \in 1..Len(fields) |-> fields[i][2]]
    IN  CASE k = "bytes" -> what = "bytes"
          [] k = "option" -> v # None /\ Contains(what, T[2], v[1])
          [] k = "seq" -> \E i \in 1..Len(v) : Contains(what, T[2], v[i])
          [] k = "tuple" -> any(T[2], v)
          [] k = "tuple_struct" -> any(T[3], v)
          [] k = "map" ->
                \E key \in DOMAIN v :
                    \/ what = "wide key" /\ IsWideKey(T[2])
                    \/ Contains(what, T[3], v[key])
          [] k = "struct" -> any(types(T[3]), v)
          [] k = "newtype_struct" ->
                \/ what = "set" /\ ptr_eq(T[2], NEWTYPE_SYMBOL)
                \/ Contains(what, T[3], v)
          [] k = "enum" ->
                (LET decl == VariantNamed(T, v[1])
                 IN  CASE decl[2] = "unit" -> FALSE
                       [] decl[2] = "newtype" -> Contains(what, decl[3], v[2])
                       [] decl[2] = "tuple" -> any(decl[3], v[2])
                       [] decl[2] = "struct" -> any(types(decl[3]), v[2]))
          [] OTHER -> FALSE

KeyTexts ==
    { <<"5">>, <<"-", "1">>, <<"+", "7">>, <<"3", "0", "0">>, <<"1", "x">>, <<"x">>, <<>>,
      <<"-">>, <<"1", ".", "5">>, <<" ", "1">>, <<"0", "0", "7">>,
      <<"4", "0", "0", "0", "0", "0", "0", "0", "0", "0">>,
      to_string(IntVal(FALSE, MaxMag("u64"))),
      to_string(IntVal(TRUE, MinMag("i128"))),
      to_string(IntVal(FALSE, MaxMag("u128"))) \o <<"0">> }

KeyTextSubjects == { <<TMap(TInt(w), TString), Item1(text, AvS(ONE))>> : <<w, text>> \in IntWidths \X KeyTexts }

\* the text of the one key of the subject's item, and the width asked for
KeyTextOf(s) == CHOOSE text \in DOMAIN s[2] : TRUE
KeyWidthOf(s) == s[1][2][2]

InitKeyText ==
    /\ pc = "input"
    /\ subject \in KeyTextSubjects
    /\ result = <<>>
    /\ drain \in {"ascending", "descending"}
    /\ item = EmptyMap
    /\ next_key = None
    /\ ret = <<>>
    /\ ncalls = 0

key_text_from_item ==
    /\ pc = "input"
    /\ pc' = "from_item"
    /\ result' = from_item(subject[1], subject[2])
    /\ UNCHANGED <<subject, item, next_key, ret, ncalls, drain>>

NextKeyText == key_text_from_item

SpecKeyText == InitKeyText /\ [][NextKeyText]_vars

\* C11 as stated: when a map key is requested as an integer of any width and the key
\* text does not parse as that integer type, from_item fails with the error kind
\* FailedToParseInt
C11_KeyFailsToParseInt ==
    (pc = "from_item" /\ ~IsOk(parse_int(KeyWidthOf(subject), KeyTextOf(subject))))
        => IsErr(result) /\ result[2].kind = "FailedToParseInt"

(***************************************************************************)
(* SpecShape: one from_attribute_value call that asks for a value of one   *)
(* type from one attribute value.                                          *)
(***************************************************************************)
\* struct Point { f: u8, g: String }
Point == TStruct("Point", <<Field(F, TInt("u8")), Field(G, TString)>>)

ShapeTypes ==
    { TInt(w) : w \in IntWidths } \cup { Point }
        \cup { TString, TBool, TChar, TUnit, Marker, TBytes, TSeq(TInt("u8")), TSeq(TString),
               TTuple(<<TInt("u8"), TString>>), Pair, TMap(TString, TInt("u8")), Address, Color }
        \cup { TOption(TInt("u8")), TOption(TString), TOption(TBool), TOption(TUnit),
               TOption(Marker), TOption(Address), TOption(TSeq(TInt("u8"))),
               TOption(TOption(TInt("u8"))), TOption(TOption(TUnit)) }

ShapeSources ==
    DeLeaves
        \cup { AvS(<<"c">>), AvS(<<>>), AvS(<<"R">>), AvN(<<"-", "4", "2">>), AvBool(FALSE),
               AvL(<<>>), AvL(<<AvN(<<"7">>)>>), AvL(<<AvN(<<"7">>), AvS(<<"x">>)>>),
               AvM(Item1(ZIP, AvN(<<"7">>))), AvM(Item1(<<"G">>, AvN(<<"7">>))),
               AvM(MapInsert(Item1(F, AvN(<<"7">>)), G, AvS(<<"x">>))),
               AvM(MapInsert(Item1(F, AvS(<<"x">>)), G, AvN(<<"7">>))),
               AvM(MapInsert(Item1(F, AvN(<<"7">>)), ZIP, AvN(<<"300">>))),
               AvM(MapInsert(MapInsert(Item1(F, AvN(<<"7">>)), G, AvS(<<"x">>)), ZIP, AvNull(FALSE))),
               AvL(<<AvS(<<"x">>), AvN(<<"7">>)>>), AvL(<<AvN(<<"300">>)>>),
               AvM(Item1(<<"R">>, AvNull(TRUE))), AvM(Item1(<<"T">>, AvL(<<AvN(<<"7">>)>>))),
               AvM(Item1(<<"R">>, AvN(<<"7">>))), AvM(Item1(<<"R">>, AvNull(FALSE))),
               AvM(Item1(<<"R">>, AvM(Item1(ZIP, AvN(<<"7">>))))),
               AvM(Item1(<<"P">>, AvM(Item1(ZIP, AvN(<<"7">>))))),
               AvM(MapInsert(Item1(<<"G">>, AvN(<<"7">>)), <<"T">>, AvL(<<AvN(<<"7">>)>>))),
               AvM(MapInsert(Item1(<<"G">>, AvN(<<"7">>)),
                             <<"P">>, AvM(Item1(ZIP, AvN(<<"7">>))))) }

\* the variants of AttributeValue that the deserialize_* method a type asks for
\* takes its value from
Demanded(T) ==
    LET k == Kind(T) IN
    CASE k = "int" -> {"N"}
      [] k \in {"string", "char"} -> {"S"}
      [] k = "bool" -> {"Bool"}
      [] k \in {"unit", "unit_struct"} -> {"Null"}
      [] k = "bytes" -> {"B"}
      [] k \in {"seq", "tuple", "tuple_struct"} -> {"L", "Ss", "Ns", "Bs"}
      [] k = "map" -> {"M"}
      [] k = "struct" -> {"L", "M"}
      [] k = "enum" -> {"S", "M"}

\* the ErrorImpl that belongs to the deserialize_* method a type asks for
ExpectedKind(T) ==
    LET k == Kind(T) IN
    CASE k = "int" -> "ExpectedNum"
      [] k = "string" -> "ExpectedString"
      [] k = "char" -> "ExpectedChar"
      [] k = "bool" -> "ExpectedBool"
      [] k = "unit" -> "ExpectedUnit"
      [] k = "unit_struct" -> "ExpectedUnitStruct"
      [] k = "bytes" -> "ExpectedBytes"
      [] k \in {"seq", "tuple", "tuple_struct"} -> "ExpectedSeq"
      [] k \in {"map", "struct"} -> "ExpectedMap"
      [] k = "enum" -> "ExpectedEnum"

ShapeSubjects == ShapeTypes \X ShapeSources

InitShape ==
    /\ pc = "input"
    /\ subject \in ShapeSubjects
    /\ result = <<>>
    /\ drain \in {"ascending", "descending"}
    /\ item = EmptyMap
    /\ next_key = None
    /\ ret = <<>>
    /\ ncalls = 0

shape_from_attribute_value ==
    /\ pc = "input"
    /\ pc' = "from_attribute_value"
    /\ result' = from_attribute_value(subject[1], subject[2])
    /\ UNCHANGED <<subject, item, next_key, ret, ncalls, drain>>

NextShape == shape_from_attribute_value

SpecShape == InitShape /\ [][NextShape]_vars

\* the types of ShapeTypes that ask for one of the shapes a mismatch is named after
IsNamedShape(T) ==
    Kind(T) \in {"int", "string", "char", "bool", "unit", "unit_struct", "bytes", "seq",
                 "tuple", "tuple_struct", "map", "struct", "enum"}

Is128(T) == Kind(T) = "int" /\ T[2] \in {"i128", "u128"}

NumberTexts ==
    { <<"0">>, <<"5">>, <<"-", "1">>, <<"-", "0">>, <<"+", "7">>, <<"0", "0", "7">>,
      to_string(IntVal(TRUE, MinMag("i64"))), to_string(IntVal(FALSE, MaxMag("i64"))),
      to_string(IntVal(FALSE, MinMag("i64"))), to_string(IntVal(FALSE, MaxMag("u64"))),
      to_string(IntVal(FALSE, MaxMag("u64"))) \o <<"0">>,
      to_string(IntVal(TRUE, MinMag("i64"))) \o <<"0">>,
      <<"1", ".", "5">>, <<"1", "e", "5">>, <<"1", ".">>, <<".", "5">>, <<"-", "2", ".", "5", "E", "-", "3">>,
      <<"i", "n", "f">>, <<"-", "i", "n", "f">>, <<"N", "a", "N">>,
      <<"i", "n", "f", "i", "n", "i", "t", "y">>,
      <<>>, <<"x">>, <<"1", "x">>, <<".">>, <<"+">>, <<"-">>, <<"e", "5">>, <<"1", "e">>,
      <<" ", "1">>, <<"-", "-", "1">>, <<"0", "x", "1", "0">>, <<"1", "e", "+">>,
      NOTANUMBER }

AnyLeaves == { AvN(text) : text \in NumberTexts } \cup DeLeaves

AnySources ==
    AnyLeaves \cup { AvL(<<leaf>>) : leaf \in AnyLeaves }
              \cup { AvM(Item1(F, leaf)) : leaf \in AnyLeaves }

InitAny ==
    /\ pc = "input"
    /\ subject \in AnySources
    /\ result = <<>>
    /\ drain \in {"ascending", "descending"}
    /\ item = EmptyMap
    /\ next_key = None
    /\ ret = <<>>
    /\ ncalls = 0

any_deserialize_any ==
    /\ pc = "input"
    /\ pc' = "deserialize_any"
    /\ result' = Deserializer_deserialize_any(subject, Root)
    /\ UNCHANGED <<subject, item, next_key, ret, ncalls, drain>>

NextAny == any_deserialize_any

SpecAny == InitAny /\ [][NextAny]_vars

\* what the claim says a Number delivers, with the error kind left open
ProbedNumber(text, failure) ==
    LET i == parse_int("i64", text)
        u == parse_int("u64", text)
    IN  IF IsOk(i) THEN Ok(<<"I64", i[2]>>)
        ELSE IF IsOk(u) THEN Ok(<<"U64", u[2]>>)
        ELSE IF parses_as_f64(text) THEN Ok(<<"F64", text>>)
        ELSE failure

\* C13, amended: in self-describing deserialization of a Number the text is delivered
\* as a signed 64-bit integer if it parses as one; otherwise as an unsigned 64-bit
\* integer if it parses as one; otherwise as a float if it parses as one; otherwise
\* deserialization fails with the FailedToParseFloat error.
C13_NumberProbesThenFailedToParseFloat ==
    (pc = "deserialize_any" /\ subject[1] = "N")
        => /\ result[1] \in {"Ok", "Err"}
           /\ IsOk(result) =>
                result = ProbedNumber(subject[2], <<>>)
           /\ IsErr(result) =>
                /\ ProbedNumber(subject[2], <<>>) = <<>>
                /\ result[2].kind = "FailedToParseFloat"

C13_Witness ==
    /\ pc = "deserialize_any"
    /\ subject = AvN(to_string(IntVal(FALSE, MinMag("i64"))))
    /\ result = Ok(<<"U64", IntVal(FALSE, MinMag("i64"))>>)

\* C13 as stated: a text that parses as none of the three fails with FailedToParseNumber
C13_NumberProbesThenFailedToParseNumber ==
    (pc = "deserialize_any" /\ subject[1] = "N")
        => /\ result[1] \in {"Ok", "Err"}
           /\ IsOk(result) =>
                result = ProbedNumber(subject[2], <<>>)
           /\ IsErr(result) =>
                /\ ProbedNumber(subject[2], <<>>) = <<>>
                /\ result[2].kind = "FailedToParseNumber"

\* C14 as stated: self-describing deserialization of a Null source yields unit for
\* every Null value, whether its boolean payload is true or false
C14_EveryNullIsUnit ==
    (pc = "deserialize_any" /\ subject[1] = "Null") => result = Ok(<<"Unit">>)

\* C15: asking for an Option<T> from Null(true) yields None; asking for it from any
\* other value v, Null(false) included, yields Some of what deserializing the same v
\* as a T yields, and fails as that deserialization fails.
C15_OptionOfTheSameValue ==
    (pc = "from_attribute_value" /\ Kind(subject[1]) = "option")
        => IF subject[2] = AvNull(TRUE) THEN result = Ok(None)
           ELSE LET inner == from_attribute_value(subject[1][2], subject[2])
                IN  /\ IsOk(inner) => result = Ok(Some(inner[2]))
                    /\ ~IsOk(inner) => result = inner

C15_Witness ==
    /\ pc = "from_attribute_value"
    /\ subject = <<TOption(TOption(TInt("u8"))), AvN(<<"7">>)>>
    /\ result = Ok(Some(Some(Nat1(7))))

\* the types of the fields of a struct type, in declaration order
FieldTypes(T) == [j \in 1..Len(T[3]) |-> T[3][j][2]]

\* C16: asking for a struct from a List reads the list positionally, as the tuple of
\* the struct's field types is read; asking for it from any other source reads a Map
\* keyed by field name: a source that is not a Map fails with ExpectedMap, a Map that
\* has an entry for every field yields each field from the entry of its name, a field
\* whose entry does not deserialize fails the struct, and so does an entry of no
\* field that deserialize_any cannot read.
C16_StructFromListOrMap ==
    (pc = "from_attribute_value" /\ Kind(subject[1]) = "struct")
        => LET T == subject[1]
               av == subject[2]
               value(j) == from_attribute_value(T[3][j][2], av[2][T[3][j][1]])
               ignored == DOMAIN av[2] \ { T[3][j][1] : j \in 1..Len(T[3]) }
           IN  CASE av[1] = "L" -> result = from_attribute_value(TTuple(FieldTypes(T)), av)
                 [] av[1] = "M" ->
                       /\ IsOk(result) =>
                            \A j \in 1..Len(T[3]) :
                                /\ T[3][j][1] \in DOMAIN av[2]
                                /\ value(j) = Ok(result[2][j])
                       /\ (/\ \A j \in 1..Len(T[3]) :
                                  T[3][j][1] \in DOMAIN av[2] /\ IsOk(value(j))
                           /\ \A key \in ignored :
                                  IsOk(Deserializer_deserialize_any(av[2][key], Root)))
                            => IsOk(result)
                 [] OTHER -> IsErr(result) /\ result[2].kind = "ExpectedMap"

C16_Witness ==
    /\ pc = "from_attribute_value"
    /\ subject = <<Point, AvL(<<AvN(<<"7">>), AvS(<<"x">>)>>)>>
    /\ result = Ok(<<Nat1(7), <<"x">> >>)

\* C17: asking for an externally tagged enum, whose variants carry a newtype, tuple or
\* struct payload, from a Map that has no entry or more than one entry fails with the
\* ExpectedSingleKey error.
C17_ExpectedSingleKey ==
    (/\ pc = "from_attribute_value"
     /\ Kind(subject[1]) = "enum"
     /\ subject[1][2][1] = "external"
     /\ subject[2][1] = "M"
     /\ Cardinality(DOMAIN subject[2][2]) # 1)
        => IsErr(result) /\ result[2].kind = "ExpectedSingleKey"

C17_Witness ==
    /\ pc = "from_attribute_value"
    /\ subject = <<Color, AvM(MapInsert(Item1(<<"G">>, AvN(<<"7">>)),
                                        <<"P">>, AvM(Item1(ZIP, AvN(<<"7">>)))))>>
    /\ IsErr(result)
    /\ result[2].kind = "ExpectedSingleKey"

(***************************************************************************)
(* string_set.rs, number_set.rs, binary_set.rs, set/bytes.rs: the per-kind *)
(* set wrappers, next to the generic wrapper of set.rs                     *)
(***************************************************************************)
string_set_NEWTYPE_SYMBOL ==
    << <<";", "S", "T", "R", "I", "N", "G", "S", "E", "T", ";">>, "string_set::NEWTYPE_SYMBOL" >>

number_set_NEWTYPE_SYMBOL ==
    << <<";", "N", "U", "M", "B", "E", "R", "S", "E", "T", ";">>, "number_set::NEWTYPE_SYMBOL" >>

binary_set_NEWTYPE_SYMBOL ==
    << <<";", "B", "Y", "T", "E", "S", "S", "E", "T", ";">>, "binary_set::NEWTYPE_SYMBOL" >>

bytes_NEWTYPE_SYMBOL ==
    << <<";", "B", "Y", "T", "E", "S", "S", "E", "T", ";">>, "set::bytes::NEWTYPE_SYMBOL" >>

should_serialize_as_string_set(name) == ptr_eq(name, string_set_NEWTYPE_SYMBOL)
should_serialize_as_numbers_set(name) == ptr_eq(name, number_set_NEWTYPE_SYMBOL)
should_serialize_as_binary_set(name) == ptr_eq(name, binary_set_NEWTYPE_SYMBOL)
should_serialize_as_bytes_set(name) == ptr_eq(name, bytes_NEWTYPE_SYMBOL)

\* string_set::convert_to_set
string_set_convert_to_set(value) ==
    IF value[1] # "L" THEN Err(Error_into("NotSetlike", ""))
    ELSE LET vals == value[2] IN
         IF \A i \in 1..Len(vals) : vals[i][1] = "S"
         THEN Ok(AvSs([i \in 1..Len(vals) |-> vals[i][2]]))
         ELSE Err(Error_into("StringSetExpectedType", ""))

\* number_set::convert_to_set
number_set_convert_to_set(value) ==
    IF value[1] # "L" THEN Err(Error_into("NotSetlike", ""))
    ELSE LET vals == value[2] IN
         IF \A i \in 1..Len(vals) : vals[i][1] = "N"
         THEN Ok(AvNs([i \in 1..Len(vals) |-> vals[i][2]]))
         ELSE Err(Error_into("NumberSetExpectedType", ""))

\* a conversion that hands the byte-strings over in reverse order
binary_set_convert_to_set_reversed(value) ==
    IF value[1] # "L" THEN Err(Error_into("NotSetlike", ""))
    ELSE LET vals == value[2] IN
         IF \A i \in 1..Len(vals) : vals[i][1] = "B"
         THEN Ok(AvBs([i \in 1..Len(vals) |-> vals[Len(vals) + 1 - i][2]]))
         ELSE Err(Error_into("BinarySetExpectedType", ""))

\* binary_set::convert_to_set
binary_set_convert_to_set(value) ==
    IF value[1] # "L" THEN Err(Error_into("NotSetlike", ""))
    ELSE LET vals == value[2] IN
         IF \A i \in 1..Len(vals) : vals[i][1] = "B"
         THEN Ok(AvBs([i \in 1..Len(vals) |-> vals[i][2]]))
         ELSE Err(Error_into("BinarySetExpectedType", ""))

\* a conversion that looks at the first element only
bytes_convert_to_set_first_only(value) ==
    IF value[1] # "L" THEN Err(Error_into("NotSetlike", ""))
    ELSE LET vals == value[2] IN
         IF vals = <<>> \/ vals[1][1] = "B"
         THEN Ok(AvBs([i \in 1..Len(vals) |-> vals[i][2]]))
         ELSE Err(Error_into("BytesSetExpectedType", ""))

\* set::bytes::convert_to_set
bytes_convert_to_set(value) ==
    IF value[1] # "L" THEN Err(Error_into("NotSetlike", ""))
    ELSE LET vals == value[2] IN
         IF \A i \in 1..Len(vals) : vals[i][1] = "B"
         THEN Ok(AvBs([i \in 1..Len(vals) |-> vals[i][2]]))
         ELSE Err(Error_into("BytesSetExpectedType", ""))

\* the newtype-struct handler for the per-kind sentinels: the wrapped value is
\* serialized first and the list that comes out is converted
serialize_newtype_struct(name, T, v) ==
    CASE should_serialize_as_string_set(name) ->
            and_then(Serializer_serialize(T, v), LAMBDA av : string_set_convert_to_set(av))
      [] should_serialize_as_numbers_set(name) ->
            and_then(Serializer_serialize(T, v), LAMBDA av : number_set_convert_to_set(av))
      [] should_serialize_as_binary_set(name) ->
            and_then(Serializer_serialize(T, v), LAMBDA av : binary_set_convert_to_set(av))
      [] should_serialize_as_bytes_set(name) ->
            and_then(Serializer_serialize(T, v), LAMBDA av : bytes_convert_to_set(av))
      [] OTHER -> Serializer_serialize(TNewtypeStruct(name, T), v)

\* the wrappers: StringSet(v), NumberSet(v), BinarySet(v), BytesSet(v), Set(v)
SetWrappers ==
    { string_set_NEWTYPE_SYMBOL, number_set_NEWTYPE_SYMBOL, binary_set_NEWTYPE_SYMBOL,
      bytes_NEWTYPE_SYMBOL, NEWTYPE_SYMBOL }

PerKindWrappers == SetWrappers \ {NEWTYPE_SYMBOL}

\* the scalar kind a per-kind wrapper asks for and the error it names
WrapperKind(name) ==
    CASE name = string_set_NEWTYPE_SYMBOL -> "S"
      [] name = number_set_NEWTYPE_SYMBOL -> "N"
      [] OTHER -> "B"

WrapperSet(name) ==
    CASE name = string_set_NEWTYPE_SYMBOL -> "Ss"
      [] name = number_set_NEWTYPE_SYMBOL -> "Ns"
      [] OTHER -> "Bs"

WrapperExpectedType(name) ==
    CASE name = string_set_NEWTYPE_SYMBOL -> "StringSetExpectedType"
      [] name = number_set_NEWTYPE_SYMBOL -> "NumberSetExpectedType"
      [] name = binary_set_NEWTYPE_SYMBOL -> "BinarySetExpectedType"
      [] OTHER -> "BytesSetExpectedType"

HELLO == <<104, 101, 108, 108, 111>>
WORLD == <<119, 111, 114, 108, 100>>

\* the wrapped values: sequences of one kind, mixed sequences, and values that are
\* no sequence
Wrapped ==
    { <<TSeq(TBytes), <<>> >>, <<TSeq(TBytes), <<HELLO>> >>,
      <<TSeq(TBytes), <<HELLO, WORLD>> >>, <<TSeq(TBytes), <<WORLD, HELLO>> >>,
      <<TSeq(TBytes), <<HELLO, HELLO>> >>,
      <<TSeq(TBytes), << <<1>>, <<2, 3>>, <<>>, HELLO, WORLD >> >>,
      <<TSeq(TString), <<>> >>, <<TSeq(TString), <<ONE>> >>,
      <<TSeq(TString), <<ONE, TWO>> >>, <<TSeq(TString), <<TWO, ONE, ONE>> >>,
      <<TSeq(TInt("u8")), <<>> >>, <<TSeq(TInt("u8")), <<Nat1(1)>> >>,
      <<TSeq(TInt("i64")), <<IntVal(TRUE, <<5>>), Nat1(2)>> >>,
      <<TSeq(TBool), <<TRUE>> >>, <<TSeq(TBool), <<>> >>,
      <<TSeq(TSeq(TString)), << <<ONE>> >> >>,
      <<TTuple(<<TString, TInt("u8")>>), <<ONE, Nat1(1)>> >>,
      <<TTuple(<<TInt("u8"), TString>>), <<Nat1(1), ONE>> >>,
      <<TTuple(<<TString, TString, TInt("u8")>>), <<ONE, TWO, Nat1(1)>> >>,
      <<TTuple(<<TBytes, TString>>), <<HELLO, ONE>> >>,
      <<TTuple(<<TString, TBytes>>), <<ONE, HELLO>> >>,
      <<TTuple(<<TInt("u8"), TBytes>>), <<Nat1(1), HELLO>> >>,
      <<TTuple(<<TBytes, TInt("u8")>>), <<HELLO, Nat1(1)>> >>,
      <<TTuple(<<TBool, TString>>), <<TRUE, ONE>> >>,
      <<TTuple(<<TString, TBool>>), <<ONE, TRUE>> >>,
      <<TTuple(<<TBytes, TUnit>>), <<HELLO, <<>> >> >>,
      <<TString, ONE>>, <<TBytes, HELLO>>, <<TInt("u8"), Nat1(1)>>,
      <<TMap(TString, TString), Item1(ONE, TWO)>>,
      <<TSeq(TInt("u128")), <<Nat1(1)>> >> }

\* names a caller can build: the text of a sentinel at another address, and the name
\* of an ordinary newtype struct
LookalikeNames == { <<name[1], "caller">> : name \in SetWrappers }

OtherNames == LookalikeNames \cup { Meters[2] }

SetSubjects == { <<name, w[1], w[2]>> : name \in SetWrappers \cup OtherNames, w \in Wrapped }

InitSet ==
    /\ pc = "input"
    /\ subject \in SetSubjects
    /\ result = <<>>
    /\ drain \in {"ascending", "descending"}
    /\ item = EmptyMap
    /\ next_key = None
    /\ ret = <<>>
    /\ ncalls = 0

set_to_attribute_value ==
    /\ pc = "input"
    /\ pc' = "serialize"
    /\ result' = serialize_newtype_struct(subject[1], subject[2], subject[3])
    /\ UNCHANGED <<subject, item, next_key, ret, ncalls, drain>>

NextSet == set_to_attribute_value

SpecSet == InitSet /\ [][NextSet]_vars

\* the list the wrapped value serializes to, when it serializes to one
WrappedList == Serializer_serialize(subject[2], subject[3])

IsWrappedList == IsOk(WrappedList) /\ WrappedList[2][1] = "L"

ExpectedTypeKinds ==
    { "StringSetExpectedType", "NumberSetExpectedType", "BinarySetExpectedType",
      "BytesSetExpectedType" }

\* some element of the list is not of the kind the per-kind wrapper asks for
HasForeignElement ==
    /\ subject[1] \in PerKindWrappers
    /\ \E i \in 1..Len(WrappedList[2][2]) : WrappedList[2][2][i][1] # WrapperKind(subject[1])

\* the list under the generic wrapper holds elements of more than one kind
IsMixed ==
    /\ subject[1] = NEWTYPE_SYMBOL
    /\ \E i, j \in 1..Len(WrappedList[2][2]) :
            WrappedList[2][2][i][1] # WrappedList[2][2][j][1]

IsEmptySequence == IsWrappedList /\ WrappedList[2][2] = <<>>

IsSet(r) == IsOk(r) /\ r[2][1] \in {"Ss", "Ns", "Bs"}

\* C21: the serializer turns the List of a newtype struct into a set only when the
\* name is the identical reference to one of the set sentinels; a newtype struct whose
\* name has the text of a sentinel at another address is serialized transparently as
\* its inner value, never as a set.
C21_SetOnlyByIdentity ==
    pc = "serialize"
        => /\ IsSet(result) => subject[1] \in SetWrappers
           /\ subject[1] \in OtherNames
                => result = Serializer_serialize(subject[2], subject[3])

C21_Witness ==
    /\ pc = "serialize"
    /\ subject[1] \in LookalikeNames
    /\ subject[1][1] = NEWTYPE_SYMBOL[1]
    /\ subject[2] = TSeq(TString)
    /\ Len(subject[3]) = 2
    /\ result[1] = "Ok" /\ result[2][1] = "L"

(***************************************************************************)
(* SpecWireObject: a wire object of any make is decoded into an            *)
(* AttributeValue (attribute_value.rs, impl Deserialize for AttributeValue)*)
(***************************************************************************)
KnownKeys ==
    { KEY_N, KEY_S, KEY_BOOL, KEY_B, KEY_NULL, KEY_M, KEY_L, KEY_SS, KEY_NS, KEY_BS }

\* keys of the wire: the ten tags, and texts that are no tag
WireKeys == KnownKeys \cup { <<"X">>, <<"n">>, <<>>, <<"S", "s">> }

\* values of the wire: right and wrong ones for every tag
WireEntryValues ==
    { WString(<<"1">>), WString(<<"X">>), WString(<<"A", "Q", "=", "=">>), WBool(TRUE),
      WArray(<<>>), WArray(<<WString(<<"a">>)>>), WArray(<<WSingle(KEY_S, WString(<<"a">>))>>),
      WObject(<<>>), WObject(<< <<<<"k">>, WSingle(KEY_BOOL, WBool(FALSE))>> >>) }

WireEntries == WireKeys \X WireEntryValues

\* objects of zero, one and two entries, and one of three
WireObjects ==
    { WObject(<<>>) }
        \cup { WObject(<<e>>) : e \in WireEntries }
        \cup { WObject(<<e, f>>) : e \in WireEntries, f \in WireEntries }
        \cup { WObject(<< <<KEY_S, WString(<<"1">>)>>, <<KEY_N, WString(<<"1">>)>>,
                          <<KEY_BOOL, WBool(TRUE)>> >>) }

InitWireObject ==
    /\ pc = "input"
    /\ subject \in WireObjects
    /\ result = <<>>
    /\ drain \in {"ascending", "descending"}
    /\ item = EmptyMap
    /\ next_key = None
    /\ ret = <<>>
    /\ ncalls = 0

wire_object_decode ==
    /\ pc = "input"
    /\ pc' = "decoded"
    /\ result' = AttributeValue_deserialize(subject)
    /\ UNCHANGED <<subject, item, next_key, ret, ncalls, drain>>

NextWireObject == wire_object_decode

SpecWireObject == InitWireObject /\ [][NextWireObject]_vars

\* C22: decoding a wire object succeeds only if the object has exactly one key and that
\* key is one of N, S, BOOL, B, NULL, M, L, SS, NS, BS; an object with no key, with
\* more than one key or with an unrecognized key is rejected with an error.
C22_OneKnownKey ==
    pc = "decoded"
        => /\ result[1] \in {"Ok", "Err"}
           /\ IsOk(result)
                => Len(subject[2]) = 1 /\ subject[2][1][1] \in KnownKeys
           /\ (Len(subject[2]) # 1 \/ \E i \in 1..Len(subject[2]) : subject[2][i][1] \notin KnownKeys)
                => IsErr(result)

C22_Witness ==
    /\ pc = "decoded"
    /\ Len(subject[2]) = 2
    /\ subject[2][1] = <<KEY_S, WString(<<"1">>)>>
    /\ subject[2][2] = <<KEY_N, WString(<<"1">>)>>
    /\ IsErr(result)

MultipleKeys == "Expected exactly one key in the object, found multiple keys"

\* C23: decoding a wire object with more than one key fails with the multiple-keys
\* error, whatever key is read first and whatever the value of that key is.
C23_MultipleKeysAlways ==
    (pc = "decoded" /\ Len(subject[2]) > 1)
        => IsErr(result) /\ result[2].detail = MultipleKeys

\* C24: a struct asked for from a Map that holds an entry for every declared field,
\* each of them readable, and entries under keys that are no field, is built from its
\* declared fields, whatever the values of the extra entries are.
C24_ExtraEntriesIgnored ==
    (/\ pc = "from_attribute_value"
     /\ Kind(subject[1]) = "struct"
     /\ subject[2][1] = "M"
     /\ \A j \in 1..Len(subject[1][3]) :
            /\ subject[1][3][j][1] \in DOMAIN subject[2][2]
            /\ IsOk(from_attribute_value(subject[1][3][j][2],
                                         subject[2][2][subject[1][3][j][1]])))
        => /\ IsOk(result)
           /\ \A j \in 1..Len(subject[1][3]) :
                Ok(result[2][j]) = from_attribute_value(subject[1][3][j][2],
                                                        subject[2][2][subject[1][3][j][1]])

(***************************************************************************)
(* macros/aws_sdk.rs, macros/rusoto.rs, macros/aws_lambda_events.rs: the   *)
(* conversion of an AttributeValue into the attribute value of a vendor    *)
(***************************************************************************)
Blob_new(v) == <<"Blob", v>>

\* str::parse::<f64>().unwrap() / .expect("parsing value to number")
parse_f64_unwrap(text) ==
    IF parses_as_f64(text) THEN Ok(<<"f64", text>>)
    ELSE Panic("unwrap on ParseFloatError")

RECURSIVE parse_f64_all(_, _)
parse_f64_all(texts, acc) ==
    IF texts = <<>> THEN Ok(acc)
    ELSE and_then(parse_f64_unwrap(Head(texts)),
                  LAMBDA n : parse_f64_all(Tail(texts), Append(acc, n)))

\* rusoto: a struct whose one field is Some(input), the others Default::default()
RusotoField(field, input) == <<"AttributeValue", field, Some(input)>>

\* the value of a vendor for one node, its children converted already
vendor_construct(adapter, av, inner) ==
    CASE adapter = "aws_sdk" ->
            Ok(CASE av[1] = "B" -> <<"B", Blob_new(inner)>>
                 [] av[1] = "Bs" -> <<"Bs", [i \in 1..Len(inner) |-> Blob_new(inner[i])]>>
                 [] OTHER -> <<av[1], inner>>)
      [] adapter = "rusoto" ->
            Ok(CASE av[1] = "N" -> RusotoField("n", inner)
                 [] av[1] = "S" -> RusotoField("s", inner)
                 [] av[1] = "Bool" -> RusotoField("bool", inner)
                 [] av[1] = "B" -> RusotoField("b", inner)
                 [] av[1] = "Null" -> RusotoField("null", inner)
                 [] av[1] = "M" -> RusotoField("m", inner)
                 [] av[1] = "L" -> RusotoField("l", inner)
                 [] av[1] = "Ss" -> RusotoField("ss", inner)
                 [] av[1] = "Ns" -> RusotoField("ns", inner)
                 [] av[1] = "Bs" -> RusotoField("bs", inner))
      [] adapter = "aws_lambda_events" ->
            CASE av[1] = "N" ->
                    and_then(parse_f64_unwrap(inner), LAMBDA n : Ok(<<"Number", n>>))
              [] av[1] = "S" -> Ok(<<"String", inner>>)
              [] av[1] = "Bool" -> Ok(<<"Boolean", inner>>)
              [] av[1] = "B" -> Ok(<<"Binary", inner>>)
              [] av[1] = "Null" -> Ok(<<"Null">>)
              [] av[1] = "M" -> Ok(<<"AttributeMap", inner>>)
              [] av[1] = "L" -> Ok(<<"AttributeList", inner>>)
              [] av[1] = "Ss" -> Ok(<<"StringSet", inner>>)
              [] av[1] = "Ns" ->
                    and_then(parse_f64_all(inner, <<>>), LAMBDA ns : Ok(<<"NumberSet", ns>>))
              [] av[1] = "Bs" -> Ok(<<"BinarySet", inner>>)

RECURSIVE vendor_from(_, _)
RECURSIVE vendor_from_list(_, _, _)
RECURSIVE vendor_from_map(_, _, _, _)

vendor_from_list(adapter, l, acc) ==
    IF l = <<>> THEN Ok(acc)
    ELSE and_then(vendor_from(adapter, Head(l)),
                  LAMBDA v : vendor_from_list(adapter, Tail(l), Append(acc, v)))

vendor_from_map(adapter, m, keys, acc) ==
    IF keys = <<>> THEN Ok(acc)
    ELSE and_then(vendor_from(adapter, m[Head(keys)]),
                  LAMBDA v : vendor_from_map(adapter, m, Tail(keys),
                                             MapInsert(acc, Head(keys), v)))

\* impl From<crate::AttributeValue> for AttributeValue, and the construct_* functions
\* called node by node
vendor_from(adapter, av) ==
    CASE av[1] = "L" ->
            and_then(vendor_from_list(adapter, av[2], <<>>),
                     LAMBDA l : vendor_construct(adapter, av, l))
      [] av[1] = "M" ->
            and_then(vendor_from_map(adapter, av[2], SetToSeq(DOMAIN av[2]), EmptyMap),
                     LAMBDA m : vendor_construct(adapter, av, m))
      [] OTHER -> vendor_construct(adapter, av, av[2])

Adapters == {"aws_sdk", "rusoto", "aws_lambda_events"}

VendorLeaves ==
    AnyLeaves \cup { AvNs(<<text>>) : text \in NumberTexts }
              \cup { AvNs(<<<<"1">>, text>>) : text \in NumberTexts }
              \cup { AvSs(<<ONE, TWO>>), AvSs(<<>>), AvBs(<<HELLO, WORLD>>), AvBs(<<>>),
                     AvB(HELLO) }

VendorValues ==
    VendorLeaves \cup { AvL(<<leaf>>) : leaf \in VendorLeaves }
                 \cup { AvL(<<AvS(ONE), leaf>>) : leaf \in VendorLeaves }
                 \cup { AvM(Item1(F, leaf)) : leaf \in VendorLeaves }
                 \cup { AvM(Item1(F, AvL(<<leaf>>))) : leaf \in VendorLeaves }

InitVendor ==
    /\ pc = "input"
    /\ subject \in Adapters \X VendorValues
    /\ result = <<>>
    /\ drain \in {"ascending", "descending"}
    /\ item = EmptyMap
    /\ next_key = None
    /\ ret = <<>>
    /\ ncalls = 0

vendor_convert ==
    /\ pc = "input"
    /\ pc' = "converted"
    /\ result' = vendor_from(subject[1], subject[2])
    /\ UNCHANGED <<subject, item, next_key, ret, ncalls, drain>>

NextVendor == vendor_convert

SpecVendor == InitVendor /\ [][NextVendor]_vars

\* C25: the conversion of every adapter from an AttributeValue to the attribute value
\* of the vendor is total and never panics, for every value, also for a Number or a
\* NumberSet whose text is no valid number.
C25_ConversionNeverPanics ==
    pc = "converted" => IsOk(result)

(***************************************************************************)
(* SpecKeyShape: a key of some shape is given to MapKeySerializer, and a   *)
(* key text is asked for as the same shape from DeserializerMapKey         *)
(***************************************************************************)
Flag == TNewtypeStruct(<<<<"F", "l", "a", "g">>, "Flag">>, TBool)
Name == TNewtypeStruct(<<<<"N", "a", "m", "e">>, "Name">>, TString)
Initial == TNewtypeStruct(<<<<"I", "n", "i", "t", "i", "a", "l">>, "Initial">>, TChar)
Shade == TNewtypeStruct(<<<<"S", "h", "a", "d", "e">>, "Shade">>, Color)

\* the key shapes, each with a key of that shape
KeyShapeValues ==
    { <<TInt(w), Nat1(5)>> : w \in IntWidths }
        \cup { <<TString, <<"a">> >>, <<TString, <<>> >>, <<TChar, "c">>,
               <<TBool, TRUE>>, <<TBool, FALSE>>, <<Color, <<<<"R">>, <<>> >> >>,
               <<Meters, IntVal(TRUE, <<5>>)>>, <<Flag, TRUE>>, <<Name, <<"a">> >>,
               <<Initial, "c">>, <<Shade, <<<<"R">>, <<>> >> >> }

KeyShapeTexts ==
    KeyTexts \cup { <<"t", "r", "u", "e">>, <<"f", "a", "l", "s", "e">>, <<"R">>, <<"a">>,
                    <<"T", "r", "u", "e">> }

KeyShapeSubjects == { <<kv[1], kv[2], text>> : kv \in KeyShapeValues, text \in KeyShapeTexts }

InitKeyShape ==
    /\ pc = "input"
    /\ subject \in KeyShapeSubjects
    /\ result = <<>>
    /\ drain \in {"ascending", "descending"}
    /\ item = EmptyMap
    /\ next_key = None
    /\ ret = <<>>
    /\ ncalls = 0

\* key.serialize(MapKeySerializer)
key_shape_serialize ==
    /\ pc = "input"
    /\ pc' = "serialized"
    /\ ret' = MapKeySerializer_serialize(subject[1], subject[2])
    /\ UNCHANGED <<subject, result, item, next_key, ncalls, drain>>

\* K::deserialize(DeserializerMapKey::from_string(text, path))
key_shape_deserialize ==
    /\ pc = "serialized"
    /\ pc' = "deserialized"
    /\ result' = DeserializerMapKey_deserialize(subject[1], subject[3], Root)
    /\ UNCHANGED <<subject, ret, item, next_key, ncalls, drain>>

NextKeyShape ==
    \/ key_shape_serialize
    \/ key_shape_deserialize

SpecKeyShape == InitKeyShape /\ [][NextKeyShape]_vars

\* the key deserializer produces the shape from some key text
CanProduce(K) ==
    \E text \in KeyShapeTexts : IsOk(DeserializerMapKey_deserialize(K, text, Root))

\* C26: for each key shape (string, character, each integer width, bool, unit-variant
\* enum, newtype struct of those) the key deserializer produces the shape from key text
\* if and only if the key serializer accepts the shape as a key.
C26_SameCapabilitySet ==
    pc = "deserialized"
        => /\ IsOk(result) => IsOk(ret)
           /\ IsOk(ret) => CanProduce(subject[1])

\* C27: an externally tagged enum asked for from a Map of one entry whose key names a
\* unit variant reads the payload as unit: a payload that is no unit value is rejected
\* with an error.
C27_UnitVariantPayloadIsUnit ==
    (/\ pc = "from_attribute_value"
     /\ Kind(subject[1]) = "enum"
     /\ subject[1][2][1] = "external"
     /\ subject[2][1] = "M"
     /\ Cardinality(DOMAIN subject[2][2]) = 1
     /\ \E key \in DOMAIN subject[2][2] :
            /\ VariantNamed(subject[1], key) # <<>>
            /\ VariantNamed(subject[1], key)[2] = "unit"
            /\ subject[2][2][key] # AvNull(TRUE))
        => IsErr(result)

(***************************************************************************)
(* SpecSerializerMapLog: the calls on one SerializerMap, with a log of     *)
(* what the caller was told: whether every call returned Ok, the key texts *)
(* that were accepted, the value the caller last paired with each, and the *)
(* key that waits for its value                                            *)
(***************************************************************************)
NoLog == [ok |-> TRUE, accepted |-> {}, paired |-> EmptyMap, waiting |-> None]

KeyTextOfKey(key) == MapKeySerializer_serialize(key[1], key[2])[2]
ValueOfValue(value) == Serializer_serialize(value[1], value[2])[2]

\* the log after a call that returned res; text is what the key serializes to
LogKey(log, text, res) ==
    IF ~IsOk(res) THEN [log EXCEPT !.ok = FALSE]
    ELSE [log EXCEPT !.accepted = @ \cup {text}, !.waiting = Some(text)]

LogValue(log, value, res) ==
    IF ~IsOk(res) THEN [log EXCEPT !.ok = FALSE]
    ELSE [log EXCEPT !.paired = MapInsert(@, log.waiting[1], value), !.waiting = None]

LogEntry(log, text, value, res) ==
    IF ~IsOk(res) THEN [log EXCEPT !.ok = FALSE]
    ELSE [log EXCEPT !.accepted = @ \cup {text}, !.paired = MapInsert(@, text, value)]

InitSerializerMapLog ==
    /\ pc = "open"
    /\ subject = NoLog
    /\ result = <<>>
    /\ item = SerializerMap_new.item
    /\ next_key = SerializerMap_new.next_key
    /\ ret = [op |-> "new", key |-> None, value |-> None, res |-> Ok(<<>>),
              pending |-> FALSE, before |-> EmptyMap]
    /\ ncalls = 0
    /\ drain = "ascending"

\* the effect of a &mut self call that returned r, and the log after it
ReturnsLogged(op, key, value, r, log) ==
    /\ ret' = Call(op, key, value, r.res)
    /\ ncalls' = ncalls + 1
    /\ item' = r.sm.item
    /\ next_key' = r.sm.next_key
    /\ pc' = IF IsPanic(r.res) THEN "panicked" ELSE "open"
    /\ subject' = log
    /\ UNCHANGED <<result, drain>>

logged_serialize_key ==
    /\ pc = "open" /\ ncalls < MaxCalls
    /\ \E key \in MapKeys :
          \E r \in {SerializerMap_serialize_key(Self, key)}, text \in {KeyTextOfKey(key)} :
              ReturnsLogged("serialize_key", Some(key), None, r, LogKey(subject, text, r.res))

logged_serialize_value ==
    /\ pc = "open" /\ ncalls < MaxCalls
    /\ \E value \in MapValues :
          \E r \in {SerializerMap_serialize_value(Self, value)} :
              ReturnsLogged("serialize_value", None, Some(value), r,
                            LogValue(subject, value, r.res))

logged_serialize_entry ==
    /\ pc = "open" /\ ncalls < MaxCalls
    /\ \E key \in MapKeys, value \in MapValues :
          \E r \in {SerializerMap_serialize_entry(Self, key, value)},
             text \in {KeyTextOfKey(key)} :
              ReturnsLogged("serialize_entry", Some(key), Some(value), r,
                            LogEntry(subject, text, value, r.res))

logged_end ==
    /\ pc = "open"
    /\ pc' = "ended"
    /\ result' = SerializerMap_end(Self)
    /\ ret' = Call("end", None, None, SerializerMap_end(Self))
    /\ UNCHANGED <<subject, item, next_key, ncalls, drain>>

NextSerializerMapLog ==
    \/ logged_serialize_key
    \/ logged_serialize_value
    \/ logged_serialize_entry
    \/ logged_end

SpecSerializerMapLog == InitSerializerMapLog /\ [][NextSerializerMapLog]_vars

\* C28: after any sequence of serialize_key, serialize_value and serialize_entry calls
\* that all returned Ok, the Map that end() returns holds every key text that was
\* accepted, each mapped to what the value it was last paired with serializes to:
\* no accepted key is dropped.
C28_NoAcceptedKeyDropped ==
    (pc = "ended" /\ subject.ok)
        => /\ IsOk(result) /\ result[2][1] = "M"
           /\ subject.accepted \subseteq DOMAIN result[2][2]
           /\ \A key \in DOMAIN subject.paired : result[2][2][key] = ValueOfValue(subject.paired[key])

(***************************************************************************)
(* de/deserializer_map.rs: DeserializerMap as a MapAccess, one call at a   *)
(* time                                                                    *)
(***************************************************************************)
MapRemove(m, k) == [x \in (DOMAIN m) \ {k} |-> m[x]]

DeserializerMap_from_item(m, path) == [drain |-> m, remaining_value |-> None, path |-> path]

\* a next_key_seed that looks at the entry and leaves it in the drain
DeserializerMap_next_key_seed_peek(dm, K, key) ==
    IF DOMAIN dm.drain = {} THEN Returned(Ok(None), dm)
    ELSE Returned(and_then(DeserializerMapKey_deserialize(K, key, PathField(key, dm.path)),
                           LAMBDA k : Ok(Some(k))),
                  [dm EXCEPT !.remaining_value = Some(<<key, dm.drain[key]>>)])

\* next_key_seed; key is the key of the entry that self.drain.next() hands over
DeserializerMap_next_key_seed(dm, K, key) ==
    IF DOMAIN dm.drain = {} THEN Returned(Ok(None), dm)
    ELSE Returned(and_then(DeserializerMapKey_deserialize(K, key, PathField(key, dm.path)),
                           LAMBDA k : Ok(Some(k))),
                  [dm EXCEPT !.drain = MapRemove(dm.drain, key),
                             !.remaining_value = Some(<<key, dm.drain[key]>>)])

DeserializerMap_next_value_seed(dm, V) ==
    IF dm.remaining_value # None
    THEN Returned(Deserializer_deserialize(V, dm.remaining_value[1][2],
                                           PathField(dm.remaining_value[1][1], dm.path)),
                  [dm EXCEPT !.remaining_value = None])
    ELSE Returned(Panic("Value without a corresponding key"), dm)

(***************************************************************************)
(* SpecDeserializerMap: any sequence of next_key_seed and next_value_seed  *)
(* calls on the DeserializerMap of one Map, with a log of the calls        *)
(***************************************************************************)
MaxSteps == 7

\* the Maps deserialize_map is given
SourceMaps ==
    { EmptyMap,
      Item1(<<"a">>, AvN(<<"1">>)),
      MapInsert(Item1(<<"a">>, AvN(<<"1">>)), <<"b">>, AvS(<<"x">>)),
      MapInsert(MapInsert(Item1(<<"1">>, AvN(<<"1">>)), <<"2">>, AvN(<<"1">>)),
                <<"a">>, AvS(<<"x">>)) }

\* the types the seeds of the visitor ask for
KeySeeds == { TString, TInt("u8") }
ValueSeeds == { TInt("u8"), TString }

DmSelf == [drain |-> item, remaining_value |-> next_key, path |-> Root]

InitDeserializerMap ==
    /\ pc = "open"
    /\ \E m \in SourceMaps :
          /\ subject = [source |-> m, log |-> <<>>]
          /\ item = DeserializerMap_from_item(m, Root).drain
          /\ next_key = DeserializerMap_from_item(m, Root).remaining_value
    /\ result = <<>>
    /\ ret = <<>>
    /\ ncalls = 0
    /\ drain = "ascending"

\* the effect of a &mut self call that returned r; event is what the log keeps of it
DmReturns(r, event) ==
    /\ ret' = r.res
    /\ ncalls' = ncalls + 1
    /\ item' = r.sm.drain
    /\ next_key' = r.sm.remaining_value
    /\ pc' = IF IsPanic(r.res) THEN "panicked" ELSE "open"
    /\ subject' = [subject EXCEPT !.log = Append(@, event)]
    /\ UNCHANGED <<result, drain>>

next_key_seed ==
    /\ pc = "open" /\ ncalls < MaxSteps
    /\ \E K \in KeySeeds :
          IF DOMAIN item = {}
          THEN DmReturns(DeserializerMap_next_key_seed(DmSelf, K, <<>>), <<"end">>)
          ELSE \E key \in DOMAIN item :
                  DmReturns(DeserializerMap_next_key_seed(DmSelf, K, key),
                            <<"key", key, DeserializerMap_next_key_seed(DmSelf, K, key).res>>)

next_value_seed ==
    /\ pc = "open" /\ ncalls < MaxSteps
    /\ \E V \in ValueSeeds :
          DmReturns(DeserializerMap_next_value_seed(DmSelf, V),
                    <<"value", V, DeserializerMap_next_value_seed(DmSelf, V).res>>)

NextDeserializerMap ==
    \/ next_key_seed
    \/ next_value_seed

SpecDeserializerMap == InitDeserializerMap /\ [][NextDeserializerMap]_vars

Log == subject.log

\* the calls came as the visitor of a map makes them: a next_value_seed follows every
\* next_key_seed that handed over an entry, and nothing else is followed by one
InTurns ==
    \A i \in 1..Len(Log) :
        /\ Log[i][1] = "value" => (i > 1 /\ Log[i - 1][1] = "key")
        /\ (Log[i][1] = "key" /\ i < Len(Log)) => Log[i + 1][1] = "value"

KeysYielded == { Log[i][2] : i \in { j \in 1..Len(Log) : Log[j][1] = "key" } }

\* C29: over a run of next_key_seed and next_value_seed calls made in turns, each entry
\* of the source Map is handed over once at most, and every one of them before the end
\* is reported; the value yielded after a key is the value stored under that key, read
\* as the type the seed asks for; once next_key_seed has reported the end it reports
\* the end on every later call.
C29_EachEntryOnce ==
    InTurns
        => /\ \A i, j \in 1..Len(Log) :
                (Log[i][1] = "key" /\ Log[j][1] = "key" /\ Log[i][2] = Log[j][2]) => i = j
           /\ KeysYielded \subseteq DOMAIN subject.source
           /\ DOMAIN item = (DOMAIN subject.source) \ KeysYielded
           /\ \A i \in 1..Len(Log) :
                /\ Log[i][1] = "end" => KeysYielded = DOMAIN subject.source
                /\ Log[i][1] = "end" => \A j \in i..Len(Log) : Log[j][1] = "end"
                /\ Log[i][1] = "value"
                     => Log[i][3] = Deserializer_deserialize(Log[i][2],
                                                             subject.source[Log[i - 1][2]],
                                                             PathField(Log[i - 1][2], Root))
                /\ Log[i][1] = "key" => Log[i][3][1] \in {"Ok", "Err"}

C29_Witness ==
    /\ InTurns
    /\ Len(Log) = MaxSteps
    /\ Cardinality(DOMAIN subject.source) = 2
    /\ Log[5][1] = "end" /\ Log[MaxSteps][1] = "end"
    /\ Log[2][1] = "value" /\ IsOk(Log[2][3])
    /\ Log[4][1] = "value" /\ IsOk(Log[4][3])

\* C30: next_value_seed called when no key is pending (before any next_key_seed, after
\* next_key_seed reported the end, or twice in a row) returns an error and does not
\* panic.
C30_ValueWithoutKeyIsAnError ==
    (Len(Log) > 0 /\ Log[Len(Log)][1] = "value"
        /\ (Len(Log) = 1 \/ Log[Len(Log) - 1][1] # "key"))
        => IsErr(ret) /\ pc = "open"

====
